---- MODULE Spec2Model ----
(***************************************************************************)
(* The chat room Durable Object of private-chat-room (src/src/ChatRoom.ts):*)
(* the messages table, the hibernatable WebSockets the platform tracks,    *)
(* the attachment serialized on each socket, and the handlers fetch,       *)
(* webSocketMessage, webSocketClose and webSocketError.  Each handler has  *)
(* no await in its body, so the single-threaded actor runs it as one step. *)
(* The variable trace is the ordered record of what the handlers did       *)
(* (calls, inserts, sends, responses); the claims are stated over it.      *)
(***************************************************************************)
EXTENDS Integers, Sequences, FiniteSets, TLC

VARIABLES store, status, attachment, trace, env, http, totp, codec, trunc

vars == <<store, status, attachment, trace, env, http, totp, codec, trunc>>

(* ---------------------------- bounds ----------------------------------- *)
\* number of connection handles the platform hands out in one run
MaxConns == 2
\* Date.now() reads a value in 1..MaxClock (wall clock: ties and steps back)
MaxClock == 2
\* number of handler invocations and evictions in one run
MaxCalls == 3
\* rows already in the durable table when the object is constructed
MaxPre == 49

(* ------------------------ program constants ---------------------------- *)
MSG_TYPE ==
  [HISTORY |-> "history", MESSAGE |-> "message", SYSTEM |-> "system", ERROR |-> "error"]

HISTORY_LIMIT == 50

DEFAULT_USERNAME == "Anonymous"

(* ------------------------------ domains -------------------------------- *)
Conns == 1..MaxConns

Clock == 1..MaxClock

\* the values url.searchParams.get("username") can return (null is NoParam)
NoParam == [null |-> TRUE]

UsernameParams == {NoParam, [null |-> FALSE, s |-> "User1"], [null |-> FALSE, s |-> "User2"]}

\* raw frames a client can send
RawPayloads ==
  {"{\"text\":\"hi\"}", "{}", "not json", "{\"text\":\"\"}", "{\"text\":5}", "null"}

\* the order SQLite returns rows that tie on the ORDER BY key (unspecified)
TieOrders == {"asc", "desc"}

(* --------------------------- JavaScript values ------------------------- *)
JSUndefined == [t |-> "undefined"]

JSNull == [t |-> "null"]

JSString(s) == [t |-> "string", s |-> s]

JSNumber(n) == [t |-> "number", n |-> n]

JSObject(text) == [t |-> "object", text |-> text]

\* JSON.parse: the parsed value, or a SyntaxError
JSONparse(raw) ==
  CASE raw = "{\"text\":\"hi\"}" -> [threw |-> FALSE, value |-> JSObject(JSString("hi"))]
    [] raw = "{}"                -> [threw |-> FALSE, value |-> JSObject(JSUndefined)]
    [] raw = "{\"text\":\"\"}"   -> [threw |-> FALSE, value |-> JSObject(JSString(""))]
    [] raw = "{\"text\":5}"      -> [threw |-> FALSE, value |-> JSObject(JSNumber(5))]
    [] raw = "null"              -> [threw |-> FALSE, value |-> JSNull]
    [] OTHER                     -> [threw |-> TRUE, value |-> JSUndefined]

\* a handler without the `if (data.text)` test
TruthyAlways(v) == TRUE

\* a condition that asks whether text is present: `if (data.text !== undefined)`
TruthyIfPresent(v) == v.t # "undefined"

\* the condition of `if (data.text)`
Truthy(v) ==
  CASE v.t = "string" -> v.s # ""
    [] v.t = "number" -> v.n # 0
    [] v.t = "object" -> TRUE
    [] OTHER          -> FALSE

\* data.text: a property read throws a TypeError on null and undefined
GetText(data) ==
  CASE data.t \in {"null", "undefined"} -> [threw |-> TRUE, value |-> JSUndefined]
    [] data.t = "object"                -> [threw |-> FALSE, value |-> data.text]
    [] OTHER                            -> [threw |-> FALSE, value |-> JSUndefined]

(* ------------------------------ the table ------------------------------ *)
RECURSIVE MaxId(_)
MaxId(rows) ==
  IF rows = <<>> THEN 0
  ELSE LET m == MaxId(Tail(rows)) IN IF Head(rows).id > m THEN Head(rows).id ELSE m

\* a rowid that skips a value
NextIdSkipping(rows) == MaxId(rows) + 2

\* INTEGER PRIMARY KEY: the rowid of a new row is one more than the largest
NextId(rows) == MaxId(rows) + 1

Reverse(s) == [i \in 1..Len(s) |-> s[Len(s) + 1 - i]]

\* rows of the table (kept in rowid order) sorted by timestamp, largest first
RECURSIVE OrderByTimestampDesc(_, _, _)
OrderByTimestampDesc(rows, t, tie) ==
  IF t < 1 THEN <<>>
  ELSE LET grp == SelectSeq(rows, LAMBDA r : r.timestamp = t)
       IN  (IF tie = "asc" THEN grp ELSE Reverse(grp))
             \o OrderByTimestampDesc(rows, t - 1, tie)

\* a LIMIT that lets one row too many through
LimitOneMore(rows, n) == SubSeq(rows, 1, IF Len(rows) < n + 1 THEN Len(rows) ELSE n + 1)

Limit(rows, n) == SubSeq(rows, 1, IF Len(rows) < n THEN Len(rows) ELSE n)

\* SELECT * FROM messages ORDER BY timestamp DESC LIMIT ?
SelectRecent(rows, limit, tie) == Limit(OrderByTimestampDesc(rows, MaxClock, tie), limit)

(* ------------------------------ the trace ------------------------------ *)
CallEntry(h, ws, arg, live) ==
  [op |-> "call", ws |-> ws, ok |-> TRUE, data |-> [h |-> h, arg |-> arg, live |-> live]]

InsertEntry(row) == [op |-> "insert", ws |-> 0, ok |-> TRUE, data |-> row]

SendEntry(ws, msg, ok) == [op |-> "send", ws |-> ws, ok |-> ok, data |-> msg]

ReturnEntry(ws, st) == [op |-> "return", ws |-> ws, ok |-> TRUE, data |-> [status |-> st]]

\* the platform evicts the idle object: everything held in memory is gone
HibernateEntry == [op |-> "hibernate", ws |-> 0, ok |-> TRUE, data |-> [status |-> 0]]

NumCalls(tr) == Cardinality({i \in 1..Len(tr) : tr[i].op \in {"call", "hibernate"}})

(* --------------------------- private methods --------------------------- *)
\* this.ctx.getWebSockets()
getWebSockets(st) == {c \in Conns : st[c] = "open"}

\* a value bound to the TEXT column text: a number is stored as its decimal text
TextAffinity(v) == IF v.t = "number" THEN JSString(ToString(v.n)) ELSE v

\* an insert that numbers the row by the clock instead of by the table
insertIdFromClock(m, msg) ==
  LET id     == msg.timestamp
      stored == [id |-> id, type |-> msg.type, user |-> msg.user,
                 text |-> TextAffinity(msg.text), timestamp |-> msg.timestamp]
      row    == [id |-> id, type |-> msg.type, user |-> msg.user,
                 text |-> msg.text, timestamp |-> msg.timestamp]
  IN  [store |-> Append(m.store, stored), trace |-> Append(m.trace, InsertEntry(stored)),
       row |-> row]

\* insert: one INSERT ... RETURNING id; m is the pair of table and trace.
\* stored is the row the table keeps, row is the {...msg, id} the method returns
insert(m, msg) ==
  LET id     == NextId(m.store)
      stored == [id |-> id, type |-> msg.type, user |-> msg.user,
                 text |-> TextAffinity(msg.text), timestamp |-> msg.timestamp]
      row    == [id |-> id, type |-> msg.type, user |-> msg.user,
                 text |-> msg.text, timestamp |-> msg.timestamp]
  IN  [store |-> Append(m.store, stored), trace |-> Append(m.trace, InsertEntry(stored)),
       row |-> row]

\* broadcast: one send per listed socket; a send that throws is swallowed
RECURSIVE sendEach(_, _, _, _, _)
sendEach(tr, msg, socks, dead, c) ==
  IF c > MaxConns THEN tr
  ELSE sendEach(IF c \in socks THEN Append(tr, SendEntry(c, msg, c \notin dead)) ELSE tr,
                msg, socks, dead, c + 1)

\* a broadcast that leaves out the first listed socket
broadcastSkippingFirst(tr, msg, socks, dead) ==
  sendEach(tr, msg, {c \in socks : \E d \in socks : d < c}, dead, 1)

\* a broadcast whose loop ends at the first send that throws
broadcastStopAtFailure(tr, msg, socks, dead) ==
  sendEach(tr, msg, {c \in socks : \A d \in socks \cap dead : c <= d}, dead, 1)

broadcast(tr, msg, socks, dead) == sendEach(tr, msg, socks, dead, 1)

\* broadcastSystem with the two statements in the other order
broadcastSystemBeforeInsert(m, text, now, socks, dead) ==
  LET tr  == broadcast(m.trace,
                       [type |-> MSG_TYPE.SYSTEM, id |-> NextId(m.store), text |-> JSString(text)],
                       socks, dead)
      ins == insert([store |-> m.store, trace |-> tr],
                    [type |-> MSG_TYPE.SYSTEM, user |-> "system", text |-> JSString(text),
                     timestamp |-> now])
  IN  [store |-> ins.store, trace |-> ins.trace]

\* broadcastSystem: insert the system row, then broadcast {type, id, text}
broadcastSystem(m, text, now, socks, dead) ==
  LET ins == insert(m, [type |-> MSG_TYPE.SYSTEM, user |-> "system", text |-> JSString(text),
                        timestamp |-> now])
  IN  [store |-> ins.store,
       trace |-> broadcast(ins.trace,
                           [type |-> MSG_TYPE.SYSTEM, id |-> ins.row.id, text |-> ins.row.text],
                           socks, dead)]

(* ------------------------------- Init ---------------------------------- *)
\* a table left by an earlier activation: one join, messages, one leave
PreRow(i, n, t) ==
  IF i = 1 THEN [id |-> i, type |-> MSG_TYPE.SYSTEM, user |-> "system",
                 text |-> JSString("User1 joined the room."), timestamp |-> t]
  ELSE IF i = n THEN [id |-> i, type |-> MSG_TYPE.SYSTEM, user |-> "system",
                      text |-> JSString("User1 left the room."), timestamp |-> t]
  ELSE [id |-> i, type |-> MSG_TYPE.MESSAGE, user |-> "User1",
        text |-> JSString("hi"), timestamp |-> t]

PreStore(n, t) == [i \in 1..n |-> PreRow(i, n, t)]

NullAttachment == [null |-> TRUE]

\* an environment binding: unset, or set to a string
Unset == [set |-> FALSE, v |-> <<>>]

Binding(v) == [set |-> TRUE, v |-> v]

\* !x of a binding: true for undefined and for the empty string
Falsy(b) == ~b.set \/ b.v = <<>>

Env(jwt, secret1, secret2) ==
  [JWT_SECRET |-> jwt, TOTP_SECRET_1 |-> secret1, TOTP_SECRET_2 |-> secret2]

\* the room alone does not read the environment
EnvNone == Env(Unset, Unset, Unset)

\* one call of verifyToken: its arguments, Date.now(), and what it returned
TotpCall(secret, token, now) ==
  [secret |-> secret, token |-> token, now |-> now, done |-> FALSE, threw |-> FALSE,
   value |-> FALSE, log |-> <<>>]

TotpNone == TotpCall(<<>>, <<>>, 0)

\* one round trip through the Base32 codec: the bytes, their encoding, its decoding
CodecCall(bytes) ==
  [bytes |-> bytes, done |-> FALSE, encoded |-> <<>>, threw |-> FALSE, decoded |-> <<>>]

CodecNone == CodecCall(<<>>)

\* one truncation of a digest: the digest, then what hotp made of it
TruncCall(hmac) ==
  [hmac |-> hmac, done |-> FALSE, offset |-> 0, inside |-> FALSE, code |-> 0, text |-> <<>>]

TruncNone == TruncCall(<<>>)

Init ==
  /\ \E n \in {0, MaxPre} : \E t \in Clock : store = PreStore(n, t)
  /\ status = [c \in Conns |-> "free"]
  /\ attachment = [c \in Conns |-> NullAttachment]
  /\ trace = <<>>
  /\ env = EnvNone
  /\ http = <<>>
  /\ totp = TotpNone
  /\ codec = CodecNone
  /\ trunc = TruncNone

(* ------------------------------ handlers ------------------------------- *)
\* the machine a handler works on
Machine == [store |-> store, status |-> status, attachment |-> attachment, trace |-> trace]

\* the handle of the next WebSocketPair
FreeConns == {c \in Conns : status[c] = "free"}

NextConn == CHOOSE c \in FreeConns : \A d \in FreeConns : c <= d

\* url.searchParams.get("username") || DEFAULT_USERNAME
UsernameOf(param) == IF param.null \/ param.s = "" THEN DEFAULT_USERNAME ELSE param.s

\* fetch that announces the join to the sockets listed before the accept
fetchAnnounceToOthers(m, ws, param, joinedAt, now, tie) ==
  LET username == UsernameOf(param)
      st       == [m.status EXCEPT ![ws] = "open"]
      att      == [m.attachment EXCEPT
                     ![ws] = [null |-> FALSE, username |-> username, joinedAt |-> joinedAt]]
      history  == Reverse(SelectRecent(m.store, HISTORY_LIMIT, tie))
      tr1      == Append(Append(m.trace, CallEntry("fetch", ws, param, getWebSockets(m.status))),
                         SendEntry(ws, [type |-> MSG_TYPE.HISTORY, messages |-> history], TRUE))
      bs       == broadcastSystem([store |-> m.store, trace |-> tr1],
                                  username \o " joined the room.", now,
                                  getWebSockets(m.status), {})
  IN  [store |-> bs.store, status |-> st, attachment |-> att,
       trace |-> Append(bs.trace, ReturnEntry(ws, 101))]

\* fetch that takes the history snapshot after it has announced the join
fetchSnapshotAfterJoin(m, ws, param, joinedAt, now, tie) ==
  LET username == UsernameOf(param)
      st       == [m.status EXCEPT ![ws] = "open"]
      att      == [m.attachment EXCEPT
                     ![ws] = [null |-> FALSE, username |-> username, joinedAt |-> joinedAt]]
      tr0      == Append(m.trace, CallEntry("fetch", ws, param, getWebSockets(m.status)))
      bs       == broadcastSystem([store |-> m.store, trace |-> tr0],
                                  username \o " joined the room.", now, getWebSockets(st), {})
      history  == Reverse(SelectRecent(bs.store, HISTORY_LIMIT, tie))
      tr1      == Append(bs.trace,
                         SendEntry(ws, [type |-> MSG_TYPE.HISTORY, messages |-> history], TRUE))
  IN  [store |-> bs.store, status |-> st, attachment |-> att,
       trace |-> Append(tr1, ReturnEntry(ws, 101))]

\* fetch that announces the join before it sends the history
fetchJoinFirst(m, ws, param, joinedAt, now, tie) ==
  LET username == UsernameOf(param)
      st       == [m.status EXCEPT ![ws] = "open"]
      att      == [m.attachment EXCEPT
                     ![ws] = [null |-> FALSE, username |-> username, joinedAt |-> joinedAt]]
      history  == Reverse(SelectRecent(m.store, HISTORY_LIMIT, tie))
      tr0      == Append(m.trace, CallEntry("fetch", ws, param, getWebSockets(m.status)))
      bs       == broadcastSystem([store |-> m.store, trace |-> tr0],
                                  username \o " joined the room.", now, getWebSockets(st), {})
      tr1      == Append(bs.trace,
                         SendEntry(ws, [type |-> MSG_TYPE.HISTORY, messages |-> history], TRUE))
  IN  [store |-> bs.store, status |-> st, attachment |-> att,
       trace |-> Append(tr1, ReturnEntry(ws, 101))]

\* a fetch whose history query removes the rows it has read
fetchConsumingHistory(m, ws, param, joinedAt, now, tie) ==
  LET username == UsernameOf(param)
      st       == [m.status EXCEPT ![ws] = "open"]
      att      == [m.attachment EXCEPT
                     ![ws] = [null |-> FALSE, username |-> username, joinedAt |-> joinedAt]]
      messages == SelectRecent(m.store, HISTORY_LIMIT, tie)
      history  == Reverse(messages)
      left     == SelectSeq(m.store, LAMBDA r : \A n \in 1..Len(messages) : messages[n].id # r.id)
      tr1      == Append(Append(m.trace, CallEntry("fetch", ws, param, getWebSockets(m.status))),
                         SendEntry(ws, [type |-> MSG_TYPE.HISTORY, messages |-> history], TRUE))
      bs       == broadcastSystem([store |-> left, trace |-> tr1],
                                  username \o " joined the room.", now, getWebSockets(st), {})
  IN  [store |-> bs.store, status |-> st, attachment |-> att,
       trace |-> Append(bs.trace, ReturnEntry(ws, 101))]

\* fetch with an Upgrade: websocket header; joinedAt and now are its two Date.now() reads
fetch(m, ws, param, joinedAt, now, tie) ==
  LET username == UsernameOf(param)
      st       == [m.status EXCEPT ![ws] = "open"]
      att      == [m.attachment EXCEPT
                     ![ws] = [null |-> FALSE, username |-> username, joinedAt |-> joinedAt]]
      messages == SelectRecent(m.store, HISTORY_LIMIT, tie)
      history  == Reverse(messages)
      tr1      == Append(Append(m.trace, CallEntry("fetch", ws, param, getWebSockets(m.status))),
                         SendEntry(ws, [type |-> MSG_TYPE.HISTORY, messages |-> history], TRUE))
      bs       == broadcastSystem([store |-> m.store, trace |-> tr1],
                                  username \o " joined the room.", now, getWebSockets(st), {})
  IN  [store |-> bs.store, status |-> st, attachment |-> att,
       trace |-> Append(bs.trace, ReturnEntry(ws, 101))]

\* fetch without the Upgrade header: 426 and nothing else
fetchNoUpgrade(m) ==
  [m EXCEPT !.trace = Append(Append(m.trace, CallEntry("fetch", 0, "none", getWebSockets(m.status))),
                             ReturnEntry(0, 426))]

\* an identity kept in an in-process map: gone once the object has been evicted
deserializeFromHeap(m, ws) ==
  IF \E i \in 1..Len(m.trace) : m.trace[i].op = "hibernate"
  THEN [null |-> TRUE]
  ELSE m.attachment[ws]

\* ws.deserializeAttachment(): what serializeAttachment stored on the socket
deserializeAttachment(m, ws) == m.attachment[ws]

ErrorPayload == [type |-> MSG_TYPE.ERROR, error |-> "Invalid message format"]

\* a message handler that writes the attachment again with a new join time
webSocketMessageRestamping(m, ws, message, now) ==
  LET state   == deserializeAttachment(m, ws)
      live    == getWebSockets(m.status)
      tr0     == Append(m.trace, CallEntry("webSocketMessage", ws, message, live))
      caught  == [m EXCEPT !.trace = Append(tr0, SendEntry(ws, ErrorPayload, TRUE))]
      parsed  == JSONparse(message)
      text    == GetText(parsed.value)
  IN  IF parsed.threw \/ text.threw THEN caught
      ELSE IF ~Truthy(text.value) THEN [m EXCEPT !.trace = tr0]
      ELSE IF state.null THEN caught
      ELSE LET fullMessage == [type |-> MSG_TYPE.MESSAGE, user |-> state.username,
                               text |-> text.value, timestamp |-> now]
               insertedRow == insert([store |-> m.store, trace |-> tr0], fullMessage)
           IN  [m EXCEPT !.store = insertedRow.store,
                         !.attachment = [m.attachment EXCEPT ![ws].joinedAt = now],
                         !.trace = broadcast(insertedRow.trace,
                                             [type |-> fullMessage.type, id |-> insertedRow.row.id,
                                              user |-> fullMessage.user, text |-> fullMessage.text,
                                              timestamp |-> fullMessage.timestamp],
                                             live, {})]

\* webSocketMessage: everything after the attachment read is inside the try
webSocketMessage(m, ws, message, now) ==
  LET state   == deserializeAttachment(m, ws)
      live    == getWebSockets(m.status)
      tr0     == Append(m.trace, CallEntry("webSocketMessage", ws, message, live))
      caught  == [m EXCEPT !.trace = Append(tr0, SendEntry(ws, ErrorPayload, TRUE))]
      parsed  == JSONparse(message)
      text    == GetText(parsed.value)
  IN  IF parsed.threw \/ text.threw THEN caught
      ELSE IF ~Truthy(text.value) THEN [m EXCEPT !.trace = tr0]
      ELSE IF state.null THEN caught
      ELSE LET fullMessage == [type |-> MSG_TYPE.MESSAGE, user |-> state.username,
                               text |-> text.value, timestamp |-> now]
               insertedRow == insert([store |-> m.store, trace |-> tr0], fullMessage)
           IN  [m EXCEPT !.store = insertedRow.store,
                         !.trace = broadcast(insertedRow.trace,
                                             [type |-> fullMessage.type, id |-> insertedRow.row.id,
                                              user |-> fullMessage.user, text |-> fullMessage.text,
                                              timestamp |-> fullMessage.timestamp],
                                             live, {})]

\* what the platform does with the closing socket while its close handler runs:
\* no longer listed, listed and send throws, listed and send is accepted
CloseViews == {"unlisted", "throws", "accepted"}

\* a close handler that announces nothing
webSocketCloseSilent(m, ws, now, view) ==
  [m EXCEPT !.status = [m.status EXCEPT ![ws] = "closed"],
            !.trace = Append(m.trace, CallEntry("webSocketClose", ws, view,
                                                getWebSockets(m.status) \ {ws}))]

\* a close handler that reads state?.username and announces the leave anyway
webSocketCloseUnchecked(m, ws, now, view) ==
  LET state == deserializeAttachment(m, ws)
      gone  == [m.status EXCEPT ![ws] = "closed"]
      socks == getWebSockets(gone) \cup (IF view = "unlisted" THEN {} ELSE {ws})
      dead  == IF view = "throws" THEN {ws} ELSE {}
      tr0   == Append(m.trace, CallEntry("webSocketClose", ws, view, socks))
      bs    == broadcastSystem([store |-> m.store, trace |-> tr0],
                               (IF state.null THEN "undefined" ELSE state.username)
                                 \o " left the room.", now, socks, dead)
  IN  [m EXCEPT !.store = bs.store, !.status = gone, !.trace = bs.trace]

\* webSocketClose; afterwards the platform no longer tracks the socket
webSocketClose(m, ws, now, view) ==
  LET state == deserializeAttachment(m, ws)
      gone  == [m.status EXCEPT ![ws] = "closed"]
      socks == getWebSockets(gone) \cup (IF view = "unlisted" THEN {} ELSE {ws})
      dead  == IF view = "throws" THEN {ws} ELSE {}
      tr0   == Append(m.trace, CallEntry("webSocketClose", ws, view, socks))
  IN  IF state.null THEN [m EXCEPT !.status = gone, !.trace = tr0]
      ELSE LET bs == broadcastSystem([store |-> m.store, trace |-> tr0],
                                     state.username \o " left the room.", now, socks, dead)
           IN  [m EXCEPT !.store = bs.store, !.status = gone, !.trace = bs.trace]

\* eviction and the constructor that runs on the next event: the object keeps
\* nothing in memory but the sql handle, and CREATE TABLE IF NOT EXISTS leaves
\* the rows alone; sockets and their attachments stay with the platform
hibernate(m) == [m EXCEPT !.trace = Append(m.trace, HibernateEntry)]

\* an error handler that closes the socket
webSocketErrorClosing(m, ws) ==
  [m EXCEPT !.status = [m.status EXCEPT ![ws] = "closed"],
            !.trace = Append(m.trace, CallEntry("webSocketError", ws, "error",
                                                getWebSockets(m.status)))]

\* webSocketError: empty body
webSocketError(m, ws) ==
  [m EXCEPT !.trace = Append(m.trace, CallEntry("webSocketError", ws, "error",
                                                getWebSockets(m.status)))]

(* ------------------------------- actions ------------------------------- *)
Apply(m) ==
  /\ store' = m.store
  /\ status' = m.status
  /\ attachment' = m.attachment
  /\ trace' = m.trace
  /\ UNCHANGED <<env, http, totp, codec, trunc>>

MayCall == NumCalls(trace) < MaxCalls

Fetch ==
  /\ MayCall
  /\ FreeConns # {}
  /\ \E param \in UsernameParams, joinedAt \in Clock, now \in Clock, tie \in TieOrders :
       Apply(fetch(Machine, NextConn, param, joinedAt, now, tie))

FetchNoUpgrade ==
  /\ MayCall
  /\ Apply(fetchNoUpgrade(Machine))

WebSocketMessage ==
  /\ MayCall
  /\ \E ws \in getWebSockets(status), message \in RawPayloads, now \in Clock :
       Apply(webSocketMessage(Machine, ws, message, now))

WebSocketClose ==
  /\ MayCall
  /\ \E ws \in getWebSockets(status), now \in Clock, view \in CloseViews :
       Apply(webSocketClose(Machine, ws, now, view))

WebSocketError ==
  /\ MayCall
  /\ \E ws \in getWebSockets(status) : Apply(webSocketError(Machine, ws))

\* the platform evicts the object between two events while sockets are open
Hibernate ==
  /\ MayCall
  /\ getWebSockets(status) # {}
  /\ trace[Len(trace)].op # "hibernate"
  /\ Apply(hibernate(Machine))

Next ==
  Fetch \/ FetchNoUpgrade \/ WebSocketMessage \/ WebSocketClose \/ WebSocketError \/ Hibernate

Spec == Init /\ [][Next]_vars

(* ------------------ a handler the host does not let finish -------------- *)
\* the host reclaims the object while a handler runs. The handlers open no
\* transaction and undo nothing, so what the next constructor finds in the
\* table is the storage engine's choice: kept tells whether the row is there
ReclaimEntry(kept) == [op |-> "reclaim", ws |-> 0, ok |-> kept, data |-> [status |-> 0]]

\* where the handler that started after tr[from] recorded its insert, 0 if nowhere
InsertIndex(tr, from) ==
  IF \E i \in (from + 1)..Len(tr) : tr[i].op = "insert"
  THEN CHOOSE i \in (from + 1)..Len(tr) : tr[i].op = "insert"
  ELSE 0

\* the points of the run m -> done that lie after this.insert(...) has returned
\* and before the loop of broadcast has made its last ws.send
CutPoints(m, done) ==
  LET ins == InsertIndex(done.trace, Len(m.trace))
  IN  IF ins = 0 THEN {}
      ELSE {p \in ins..Len(done.trace) :
              \E i \in (p + 1)..Len(done.trace) : done.trace[i].op = "send"}

\* the run m -> done stopped after its entry p: nothing later is executed
reclaim(m, done, p, kept) ==
  [store |-> IF kept THEN done.store ELSE m.store,
   status |-> done.status,
   attachment |-> done.attachment,
   trace |-> Append(SubSeq(done.trace, 1, p), ReclaimEntry(kept))]

\* how many handlers of one run the host interrupts
MaxReclaims == 1

MayReclaim ==
  /\ MayCall
  /\ Cardinality({i \in 1..Len(trace) : trace[i].op = "reclaim"}) < MaxReclaims

\* fetch interrupted in broadcastSystem: the 101 response is never returned, so
\* the client never holds the socket
FetchReclaimed ==
  /\ MayReclaim
  /\ FreeConns # {}
  /\ \E param \in UsernameParams, joinedAt \in Clock, now \in Clock, tie \in TieOrders,
        kept \in BOOLEAN :
       LET ran  == fetch(Machine, NextConn, param, joinedAt, now, tie)
           done == [ran EXCEPT !.status = [ran.status EXCEPT ![NextConn] = "closed"]]
       IN  \E p \in CutPoints(Machine, done) : Apply(reclaim(Machine, done, p, kept))

\* webSocketMessage interrupted between lines 128 and 131
WebSocketMessageReclaimed ==
  /\ MayReclaim
  /\ \E ws \in getWebSockets(status), message \in RawPayloads, now \in Clock, kept \in BOOLEAN :
       LET done == webSocketMessage(Machine, ws, message, now)
       IN  \E p \in CutPoints(Machine, done) : Apply(reclaim(Machine, done, p, kept))

\* webSocketClose interrupted in broadcastSystem
WebSocketCloseReclaimed ==
  /\ MayReclaim
  /\ \E ws \in getWebSockets(status), now \in Clock, view \in CloseViews, kept \in BOOLEAN :
       LET done == webSocketClose(Machine, ws, now, view)
       IN  \E p \in CutPoints(Machine, done) : Apply(reclaim(Machine, done, p, kept))

NextReclaim ==
  Next \/ FetchReclaimed \/ WebSocketMessageReclaimed \/ WebSocketCloseReclaimed

SpecReclaim == Init /\ [][NextReclaim]_vars

(* ------------------------ an insert that raises ------------------------- *)
\* this.sql.exec(INSERT ...) throws: the statement has stored nothing
RaiseEntry == [op |-> "raise", ws |-> 0, ok |-> FALSE, data |-> [status |-> 0]]

\* a handler that broadcasts the message and persists it afterwards
webSocketMessageSendFirst(m, ws, message, now) ==
  LET state   == deserializeAttachment(m, ws)
      live    == getWebSockets(m.status)
      tr0     == Append(m.trace, CallEntry("webSocketMessage", ws, message, live))
      caught  == [m EXCEPT !.trace = Append(tr0, SendEntry(ws, ErrorPayload, TRUE))]
      parsed  == JSONparse(message)
      text    == GetText(parsed.value)
  IN  IF parsed.threw \/ text.threw THEN caught
      ELSE IF ~Truthy(text.value) THEN [m EXCEPT !.trace = tr0]
      ELSE IF state.null THEN caught
      ELSE LET sent == broadcast(tr0, [type |-> MSG_TYPE.MESSAGE, id |-> NextId(m.store),
                                       user |-> state.username, text |-> text.value,
                                       timestamp |-> now],
                                 live, {})
           IN  [m EXCEPT !.trace = Append(Append(sent, RaiseEntry),
                                          SendEntry(ws, ErrorPayload, TRUE))]

\* webSocketMessage when the INSERT of insert() throws: the exception is raised
\* inside the try, so line 131 is skipped and the catch answers the sender
webSocketMessageInsertRaises(m, ws, message, now) ==
  LET state   == deserializeAttachment(m, ws)
      live    == getWebSockets(m.status)
      tr0     == Append(m.trace, CallEntry("webSocketMessage", ws, message, live))
      caught  == [m EXCEPT !.trace = Append(tr0, SendEntry(ws, ErrorPayload, TRUE))]
      parsed  == JSONparse(message)
      text    == GetText(parsed.value)
  IN  IF parsed.threw \/ text.threw THEN caught
      ELSE IF ~Truthy(text.value) THEN [m EXCEPT !.trace = tr0]
      ELSE IF state.null THEN caught
      ELSE [m EXCEPT !.trace = Append(Append(tr0, RaiseEntry),
                                      SendEntry(ws, ErrorPayload, TRUE))]

WebSocketMessageInsertRaises ==
  /\ MayCall
  /\ \E ws \in getWebSockets(status), message \in RawPayloads, now \in Clock :
       Apply(webSocketMessageInsertRaises(Machine, ws, message, now))

NextRaise == Next \/ WebSocketMessageInsertRaises

SpecRaise == Init /\ [][NextRaise]_vars

(* ------------------- a socket whose attachment is gone ------------------ *)
\* ws.deserializeAttachment() is typed `as SessionState` and not checked: the
\* platform returns null for a socket that carries no attachment
LostEntry(ws) == [op |-> "lost", ws |-> ws, ok |-> TRUE, data |-> [status |-> 0]]

\* how many sockets of one run lose their attachment
MaxLost == 1

\* the platform drops the attachment of an open socket between two events
AttachmentLost ==
  /\ MayCall
  /\ Cardinality({i \in 1..Len(trace) : trace[i].op = "lost"}) < MaxLost
  /\ \E ws \in getWebSockets(status) :
       /\ ~attachment[ws].null
       /\ attachment' = [attachment EXCEPT ![ws] = NullAttachment]
       /\ trace' = Append(trace, LostEntry(ws))
  /\ UNCHANGED <<store, status, env, http, totp, codec, trunc>>

NextLost == Next \/ AttachmentLost

SpecLost == Init /\ [][NextLost]_vars

(***************************************************************************)
(* The TOTP verifier (src/src/totp.ts).  A string is the sequence of its   *)
(* characters, a byte array the sequence of its bytes.                     *)
(***************************************************************************)
BASE32_ALPHABET ==
  <<"A", "B", "C", "D", "E", "F", "G", "H", "I", "J", "K", "L", "M", "N", "O", "P",
    "Q", "R", "S", "T", "U", "V", "W", "X", "Y", "Z", "2", "3", "4", "5", "6", "7">>

LowerCase ==
  <<"a", "b", "c", "d", "e", "f", "g", "h", "i", "j", "k", "l", "m",
    "n", "o", "p", "q", "r", "s", "t", "u", "v", "w", "x", "y", "z">>

DecimalDigits == <<"0", "1", "2", "3", "4", "5", "6", "7", "8", "9">>

\* the characters the regular expression class \s matches, as far as the inputs use them
Whitespace == {" ", "\t", "\n"}

\* String.prototype.indexOf for one character: zero-based, -1 when absent
indexOf(s, ch) ==
  IF \E i \in 1..Len(s) : s[i] = ch
  THEN (CHOOSE i \in 1..Len(s) : s[i] = ch /\ \A k \in 1..(i - 1) : s[k] # ch) - 1
  ELSE -1

toUpperCase(s) ==
  [i \in 1..Len(s) |->
     IF indexOf(LowerCase, s[i]) = -1 THEN s[i] ELSE BASE32_ALPHABET[indexOf(LowerCase, s[i]) + 1]]

\* s.replace(/[...]/g, ''): s without the characters of the class
RECURSIVE replaceAll(_, _)
replaceAll(s, class) ==
  IF s = <<>> THEN <<>>
  ELSE IF Head(s) \in class THEN replaceAll(Tail(s), class)
       ELSE <<Head(s)>> \o replaceAll(Tail(s), class)

\* a 32-bit value as its two 16-bit halves
Int32(hi, lo) == [hi |-> hi, lo |-> lo]

\* (value << 5) | charIndex, in 32 bits
ShiftLeft5Or(value, charIndex) ==
  Int32((value.hi * 32 + (value.lo \div 2048)) % 65536, ((value.lo * 32) % 65536) + charIndex)

\* (value >>> k) & 0xff for k <= 8: only the low half contributes
ShiftRightByte(value, k) == (value.lo \div (2 ^ k)) % 256

RECURSIVE base32DecodeLoop(_, _, _, _, _)
base32DecodeLoop(clean, i, bits, value, output) ==
  IF i > Len(clean) THEN [threw |-> FALSE, bytes |-> output]
  ELSE LET charIndex == indexOf(BASE32_ALPHABET, clean[i])
           v         == ShiftLeft5Or(value, charIndex)
       IN  IF charIndex = -1 THEN [threw |-> TRUE, bytes |-> <<>>]
           ELSE IF bits + 5 >= 8
                THEN base32DecodeLoop(clean, i + 1, bits + 5 - 8, v,
                                      Append(output, ShiftRightByte(v, bits + 5 - 8)))
                ELSE base32DecodeLoop(clean, i + 1, bits + 5, v, output)

\* base32Decode: the bytes, or threw for a character outside the alphabet
base32Decode(input) ==
  base32DecodeLoop(replaceAll(toUpperCase(input), Whitespace \cup {"="}), 1, 0, Int32(0, 0), <<>>)

\* counterToBytes for a counter below 2^31: 64-bit big-endian
counterToBytes(counter) ==
  LET high == (counter \div 65536) \div 65536
      low  == counter
  IN  <<(high \div 16777216) % 256, (high \div 65536) % 256, (high \div 256) % 256, high % 256,
        (low \div 16777216) % 256, (low \div 65536) % 256, (low \div 256) % 256, low % 256>>

\* crypto.subtle.sign('HMAC', key, data) with SHA-1, for the keys and counters
\* of the domains below: the digests HMAC-SHA1 has for them
HmacSha1 ==
  <<<<72, 101, 108, 108, 111, 33, 222, 173, 190, 239>>, <<0, 0, 0, 0, 0, 0, 1, 230>>>> :>
    <<225, 71, 117, 92, 196, 185, 98, 246, 91, 78, 2, 255, 26, 44, 18, 87, 170, 180, 84, 253>> @@
  <<<<72, 101, 108, 108, 111, 33, 222, 173, 190, 240>>, <<0, 0, 0, 0, 0, 0, 1, 230>>>> :>
    <<124, 126, 117, 27, 150, 231, 68, 97, 228, 212, 131, 105, 158, 225, 100, 55, 129, 141, 199, 145>> @@
  <<<<72, 101, 108, 108, 111, 33, 222, 173, 190, 239>>, <<0, 0, 0, 0, 0, 0, 1, 231>>>> :>
    <<9, 211, 99, 185, 0, 66, 137, 250, 114, 172, 243, 107, 225, 215, 158, 134, 190, 12, 231, 162>> @@
  <<<<72, 101, 108, 108, 111, 33, 222, 173, 190, 240>>, <<0, 0, 0, 0, 0, 0, 1, 231>>>> :>
    <<105, 245, 171, 221, 238, 206, 165, 106, 81, 130, 59, 145, 232, 149, 117, 246, 79, 67, 25, 162>> @@
  <<<<72, 101, 108, 108, 111, 33, 222, 173, 190, 239>>, <<0, 0, 0, 0, 0, 0, 1, 232>>>> :>
    <<183, 65, 129, 122, 244, 196, 149, 48, 3, 133, 74, 28, 168, 247, 27, 4, 156, 124, 16, 206>> @@
  <<<<72, 101, 108, 108, 111, 33, 222, 173, 190, 240>>, <<0, 0, 0, 0, 0, 0, 1, 232>>>> :>
    <<39, 48, 150, 188, 232, 243, 219, 253, 120, 177, 224, 169, 149, 249, 190, 160, 240, 144, 159, 20>> @@
  <<<<72, 101, 108, 108, 111, 33, 222, 173, 190, 239>>, <<0, 0, 0, 0, 0, 0, 1, 233>>>> :>
    <<49, 48, 118, 247, 62, 145, 135, 72, 131, 188, 163, 35, 69, 49, 46, 138, 9, 231, 221, 183>> @@
  <<<<72, 101, 108, 108, 111, 33, 222, 173, 190, 240>>, <<0, 0, 0, 0, 0, 0, 1, 233>>>> :>
    <<167, 53, 197, 233, 127, 36, 67, 100, 233, 112, 70, 87, 254, 124, 59, 229, 154, 20, 78, 145>> @@
  <<<<72, 101, 108, 108, 111, 33, 222, 173, 190, 239>>, <<0, 0, 0, 0, 0, 0, 1, 234>>>> :>
    <<252, 143, 64, 56, 153, 172, 137, 160, 44, 20, 126, 220, 156, 183, 40, 122, 27, 255, 42, 52>> @@
  <<<<72, 101, 108, 108, 111, 33, 222, 173, 190, 240>>, <<0, 0, 0, 0, 0, 0, 1, 234>>>> :>
    <<3, 171, 120, 14, 17, 226, 172, 170, 106, 187, 128, 235, 33, 27, 153, 141, 173, 38, 27, 213>> @@
  <<<<72, 101, 108, 108, 111, 33, 222, 173, 190, 239>>, <<0, 0, 0, 0, 0, 0, 1, 235>>>> :>
    <<209, 36, 104, 153, 27, 252, 239, 175, 120, 191, 128, 238, 107, 156, 251, 183, 70, 150, 196, 194>> @@
  <<<<72, 101, 108, 108, 111, 33, 222, 173, 190, 240>>, <<0, 0, 0, 0, 0, 0, 1, 235>>>> :>
    <<225, 216, 63, 173, 227, 24, 190, 83, 144, 113, 27, 64, 71, 152, 207, 6, 27, 114, 138, 41>> @@
  <<<<72, 101, 108, 108, 111, 33, 222, 173, 190, 239>>, <<0, 0, 0, 0, 0, 0, 1, 236>>>> :>
    <<248, 162, 73, 78, 111, 142, 252, 186, 212, 231, 244, 153, 246, 214, 36, 209, 203, 162, 117, 136>> @@
  <<<<72, 101, 108, 108, 111, 33, 222, 173, 190, 240>>, <<0, 0, 0, 0, 0, 0, 1, 236>>>> :>
    <<204, 77, 68, 193, 208, 253, 180, 7, 229, 166, 248, 64, 142, 153, 75, 74, 85, 145, 36, 222>> @@
  <<<<72, 101, 108, 108, 111, 33, 222, 173, 190, 239>>, <<0, 0, 0, 0, 0, 0, 1, 237>>>> :>
    <<4, 150, 219, 152, 137, 85, 136, 234, 235, 154, 176, 232, 107, 7, 146, 179, 242, 41, 56, 228>> @@
  <<<<72, 101, 108, 108, 111, 33, 222, 173, 190, 240>>, <<0, 0, 0, 0, 0, 0, 1, 237>>>> :>
    <<196, 202, 23, 128, 158, 237, 11, 101, 22, 108, 210, 88, 222, 163, 82, 134, 228, 126, 122, 30>> @@
  <<<<72, 101, 108, 108, 111, 33, 222, 173, 190, 239>>, <<0, 0, 0, 0, 0, 0, 1, 238>>>> :>
    <<79, 63, 168, 224, 88, 126, 98, 71, 206, 96, 242, 99, 61, 161, 181, 246, 104, 73, 221, 144>> @@
  <<<<72, 101, 108, 108, 111, 33, 222, 173, 190, 240>>, <<0, 0, 0, 0, 0, 0, 1, 238>>>> :>
    <<162, 7, 133, 220, 178, 40, 166, 150, 211, 212, 32, 118, 174, 22, 46, 23, 178, 30, 186, 74>> @@
  <<<<72, 101, 108, 108, 111, 33, 222, 173, 190, 239>>, <<0, 0, 0, 0, 0, 0, 1, 239>>>> :>
    <<199, 204, 15, 129, 122, 217, 176, 87, 237, 74, 92, 173, 165, 210, 22, 84, 178, 95, 127, 154>> @@
  <<<<72, 101, 108, 108, 111, 33, 222, 173, 190, 240>>, <<0, 0, 0, 0, 0, 0, 1, 239>>>> :>
    <<134, 122, 7, 208, 96, 34, 203, 134, 114, 76, 85, 132, 200, 239, 239, 180, 195, 123, 2, 103>> @@
  <<<<72, 101, 108, 108, 111, 33, 222, 173, 190, 239>>, <<0, 0, 0, 0, 0, 0, 1, 240>>>> :>
    <<116, 235, 136, 177, 228, 86, 172, 100, 170, 27, 225, 119, 92, 80, 0, 205, 213, 101, 41, 171>> @@
  <<<<72, 101, 108, 108, 111, 33, 222, 173, 190, 240>>, <<0, 0, 0, 0, 0, 0, 1, 240>>>> :>
    <<195, 3, 223, 93, 232, 226, 75, 63, 188, 130, 100, 12, 249, 174, 181, 80, 61, 178, 2, 254>> @@
  <<<<72, 101, 108, 108, 111, 33, 222, 173, 190, 239>>, <<0, 0, 0, 0, 0, 0, 1, 241>>>> :>
    <<177, 40, 243, 88, 17, 190, 84, 80, 18, 149, 85, 86, 58, 123, 26, 147, 86, 224, 162, 236>> @@
  <<<<72, 101, 108, 108, 111, 33, 222, 173, 190, 240>>, <<0, 0, 0, 0, 0, 0, 1, 241>>>> :>
    <<119, 141, 24, 179, 70, 73, 94, 230, 238, 252, 90, 72, 226, 80, 172, 54, 44, 188, 179, 5>> @@
  <<<<72, 101, 108, 108, 111, 33, 222, 173, 190, 239>>, <<0, 0, 0, 0, 0, 0, 1, 242>>>> :>
    <<109, 202, 4, 77, 168, 187, 83, 131, 8, 72, 142, 105, 76, 59, 175, 62, 193, 106, 81, 2>> @@
  <<<<72, 101, 108, 108, 111, 33, 222, 173, 190, 240>>, <<0, 0, 0, 0, 0, 0, 1, 242>>>> :>
    <<163, 238, 36, 71, 211, 96, 64, 250, 107, 191, 178, 243, 92, 86, 121, 69, 26, 210, 64, 230>> @@
  <<<<72, 101, 108, 108, 111, 33, 222, 173, 190, 239>>, <<0, 0, 0, 0, 0, 0, 4, 79>>>> :>
    <<68, 196, 24, 8, 94, 4, 239, 71, 16, 95, 144, 11, 170, 250, 92, 107, 255, 214, 131, 223>> @@
  <<<<72, 101, 108, 108, 111, 33, 222, 173, 190, 240>>, <<0, 0, 0, 0, 0, 0, 4, 79>>>> :>
    <<103, 106, 84, 94, 251, 3, 218, 184, 151, 139, 142, 91, 68, 91, 6, 5, 84, 145, 55, 211>> @@
  <<<<72, 101, 108, 108, 111, 33, 222, 173, 190, 239>>, <<0, 0, 0, 0, 0, 0, 4, 80>>>> :>
    <<205, 62, 130, 9, 161, 109, 128, 89, 228, 44, 201, 182, 95, 226, 169, 137, 211, 231, 146, 242>> @@
  <<<<72, 101, 108, 108, 111, 33, 222, 173, 190, 240>>, <<0, 0, 0, 0, 0, 0, 4, 80>>>> :>
    <<160, 29, 78, 132, 215, 40, 95, 54, 90, 8, 141, 90, 223, 10, 203, 231, 236, 26, 247, 113>> @@
  <<<<72, 101, 108, 108, 111, 33, 222, 173, 190, 239>>, <<0, 0, 0, 0, 0, 0, 4, 81>>>> :>
    <<1, 25, 52, 243, 211, 130, 179, 68, 227, 76, 238, 229, 75, 95, 88, 153, 145, 102, 203, 118>> @@
  <<<<72, 101, 108, 108, 111, 33, 222, 173, 190, 240>>, <<0, 0, 0, 0, 0, 0, 4, 81>>>> :>
    <<76, 52, 139, 155, 221, 201, 230, 206, 252, 46, 72, 153, 6, 202, 124, 235, 42, 219, 148, 138>> @@
  <<<<72, 101, 108, 108, 111, 33, 222, 173, 190, 239>>, <<0, 0, 0, 0, 0, 0, 4, 82>>>> :>
    <<179, 79, 180, 156, 181, 203, 76, 64, 79, 151, 14, 32, 134, 70, 240, 89, 3, 210, 164, 184>> @@
  <<<<72, 101, 108, 108, 111, 33, 222, 173, 190, 240>>, <<0, 0, 0, 0, 0, 0, 4, 82>>>> :>
    <<60, 72, 164, 190, 33, 247, 11, 5, 104, 42, 168, 199, 123, 255, 190, 197, 8, 251, 228, 164>> @@
  <<<<72, 101, 108, 108, 111, 33, 222, 173, 190, 239>>, <<0, 0, 0, 0, 0, 0, 4, 83>>>> :>
    <<248, 198, 82, 103, 31, 91, 28, 36, 239, 14, 122, 13, 0, 157, 26, 135, 122, 42, 211, 123>> @@
  <<<<72, 101, 108, 108, 111, 33, 222, 173, 190, 240>>, <<0, 0, 0, 0, 0, 0, 4, 83>>>> :>
    <<208, 112, 167, 67, 144, 149, 51, 160, 56, 0, 161, 214, 140, 204, 90, 114, 158, 67, 106, 3>> @@
  <<<<72, 101, 108, 108, 111, 33, 222, 173, 190, 239>>, <<0, 0, 0, 0, 0, 0, 4, 84>>>> :>
    <<0, 235, 169, 205, 142, 129, 21, 214, 252, 95, 156, 205, 29, 90, 28, 189, 33, 187, 67, 243>> @@
  <<<<72, 101, 108, 108, 111, 33, 222, 173, 190, 240>>, <<0, 0, 0, 0, 0, 0, 4, 84>>>> :>
    <<94, 46, 159, 171, 107, 54, 180, 117, 180, 203, 9, 60, 52, 94, 3, 102, 4, 109, 109, 158>> @@
  <<<<72, 101, 108, 108, 111, 33, 222, 173, 190, 239>>, <<0, 0, 0, 0, 0, 0, 4, 85>>>> :>
    <<231, 248, 114, 187, 73, 6, 253, 143, 1, 36, 251, 227, 153, 179, 66, 243, 20, 239, 217, 121>> @@
  <<<<72, 101, 108, 108, 111, 33, 222, 173, 190, 240>>, <<0, 0, 0, 0, 0, 0, 4, 85>>>> :>
    <<174, 216, 125, 242, 34, 3, 88, 91, 19, 7, 145, 106, 51, 11, 247, 246, 142, 52, 22, 137>> @@
  <<<<72, 101, 108, 108, 111, 33, 222, 173, 190, 239>>, <<0, 0, 0, 0, 0, 0, 4, 86>>>> :>
    <<225, 115, 190, 218, 140, 251, 152, 129, 85, 90, 23, 51, 26, 65, 81, 6, 59, 95, 89, 32>> @@
  <<<<72, 101, 108, 108, 111, 33, 222, 173, 190, 240>>, <<0, 0, 0, 0, 0, 0, 4, 86>>>> :>
    <<245, 115, 211, 46, 209, 101, 92, 111, 57, 236, 75, 116, 66, 74, 34, 197, 93, 4, 218, 174>> @@
  <<<<72, 101, 108, 108, 111, 33, 222, 173, 190, 239>>, <<0, 0, 0, 0, 0, 0, 4, 87>>>> :>
    <<159, 200, 243, 5, 133, 171, 66, 78, 225, 87, 125, 222, 97, 200, 171, 121, 185, 238, 228, 16>> @@
  <<<<72, 101, 108, 108, 111, 33, 222, 173, 190, 240>>, <<0, 0, 0, 0, 0, 0, 4, 87>>>> :>
    <<161, 235, 189, 254, 192, 236, 83, 161, 96, 19, 121, 85, 107, 12, 44, 190, 116, 198, 70, 209>> @@
  <<<<72, 101, 108, 108, 111, 33, 222, 173, 190, 239>>, <<0, 0, 0, 0, 0, 0, 4, 88>>>> :>
    <<193, 222, 230, 112, 191, 72, 222, 203, 40, 122, 173, 218, 160, 20, 108, 227, 226, 212, 216, 195>> @@
  <<<<72, 101, 108, 108, 111, 33, 222, 173, 190, 240>>, <<0, 0, 0, 0, 0, 0, 4, 88>>>> :>
    <<114, 176, 209, 216, 42, 56, 146, 198, 185, 130, 109, 133, 167, 188, 244, 7, 67, 186, 50, 118>> @@
  <<<<72, 101, 108, 108, 111, 33, 222, 173, 190, 239>>, <<0, 0, 0, 0, 0, 0, 4, 89>>>> :>
    <<97, 209, 201, 7, 70, 123, 54, 126, 209, 111, 100, 21, 119, 159, 84, 232, 97, 87, 10, 196>> @@
  <<<<72, 101, 108, 108, 111, 33, 222, 173, 190, 240>>, <<0, 0, 0, 0, 0, 0, 4, 89>>>> :>
    <<77, 236, 74, 98, 45, 91, 47, 163, 154, 233, 133, 214, 183, 112, 159, 10, 13, 203, 47, 184>> @@
  <<<<72, 101, 108, 108, 111, 33, 222, 173, 190, 239>>, <<0, 0, 0, 0, 0, 0, 4, 90>>>> :>
    <<133, 236, 131, 4, 86, 251, 106, 56, 82, 146, 99, 13, 148, 254, 244, 142, 10, 95, 37, 39>> @@
  <<<<72, 101, 108, 108, 111, 33, 222, 173, 190, 240>>, <<0, 0, 0, 0, 0, 0, 4, 90>>>> :>
    <<34, 10, 3, 188, 134, 238, 205, 167, 59, 108, 105, 110, 192, 35, 170, 182, 170, 2, 233, 249>> @@
  <<<<72, 101, 108, 108, 111, 33, 222, 173, 190, 239>>, <<0, 0, 0, 0, 0, 0, 4, 91>>>> :>
    <<138, 153, 86, 234, 84, 180, 181, 237, 55, 136, 243, 153, 227, 43, 145, 96, 188, 153, 144, 0>> @@
  <<<<72, 101, 108, 108, 111, 33, 222, 173, 190, 240>>, <<0, 0, 0, 0, 0, 0, 4, 91>>>> :>
    <<162, 223, 232, 185, 104, 93, 97, 91, 21, 206, 248, 150, 187, 76, 128, 57, 108, 229, 196, 245>> @@
  <<<<72, 101, 108, 108, 111, 33, 222, 173, 190, 239>>, <<0, 0, 0, 0, 0, 0, 136, 103>>>> :>
    <<91, 99, 241, 145, 78, 94, 66, 77, 77, 178, 146, 248, 224, 76, 167, 152, 96, 113, 163, 255>> @@
  <<<<72, 101, 108, 108, 111, 33, 222, 173, 190, 240>>, <<0, 0, 0, 0, 0, 0, 136, 103>>>> :>
    <<254, 21, 189, 181, 116, 235, 131, 23, 201, 79, 128, 81, 169, 223, 207, 34, 205, 135, 186, 74>> @@
  <<<<72, 101, 108, 108, 111, 33, 222, 173, 190, 239>>, <<0, 0, 0, 0, 0, 0, 136, 104>>>> :>
    <<87, 81, 121, 45, 246, 166, 217, 158, 26, 146, 81, 33, 74, 101, 29, 18, 177, 91, 194, 80>> @@
  <<<<72, 101, 108, 108, 111, 33, 222, 173, 190, 240>>, <<0, 0, 0, 0, 0, 0, 136, 104>>>> :>
    <<31, 61, 251, 165, 210, 230, 110, 220, 22, 227, 91, 111, 199, 82, 201, 171, 73, 86, 149, 121>> @@
  <<<<72, 101, 108, 108, 111, 33, 222, 173, 190, 239>>, <<0, 0, 0, 0, 0, 0, 136, 105>>>> :>
    <<94, 236, 32, 0, 102, 71, 67, 255, 98, 16, 3, 248, 97, 50, 105, 161, 21, 152, 245, 187>> @@
  <<<<72, 101, 108, 108, 111, 33, 222, 173, 190, 240>>, <<0, 0, 0, 0, 0, 0, 136, 105>>>> :>
    <<95, 171, 235, 129, 71, 11, 21, 16, 54, 118, 97, 236, 65, 64, 150, 71, 133, 66, 251, 234>> @@
  <<<<72, 101, 108, 108, 111, 33, 222, 173, 190, 239>>, <<0, 0, 0, 0, 0, 0, 136, 106>>>> :>
    <<251, 27, 206, 98, 241, 172, 88, 100, 28, 121, 239, 13, 238, 231, 143, 202, 44, 33, 125, 192>> @@
  <<<<72, 101, 108, 108, 111, 33, 222, 173, 190, 240>>, <<0, 0, 0, 0, 0, 0, 136, 106>>>> :>
    <<164, 36, 3, 44, 32, 168, 101, 190, 148, 206, 197, 17, 216, 90, 135, 249, 57, 201, 4, 23>> @@
  <<<<72, 101, 108, 108, 111, 33, 222, 173, 190, 239>>, <<0, 0, 0, 0, 0, 0, 136, 107>>>> :>
    <<18, 123, 94, 226, 195, 5, 162, 98, 128, 12, 230, 222, 43, 82, 56, 62, 70, 163, 189, 180>> @@
  <<<<72, 101, 108, 108, 111, 33, 222, 173, 190, 240>>, <<0, 0, 0, 0, 0, 0, 136, 107>>>> :>
    <<93, 174, 252, 26, 126, 191, 224, 157, 100, 150, 183, 139, 136, 106, 67, 246, 225, 107, 188, 218>> @@
  <<<<72, 101, 108, 108, 111, 33, 222, 173, 190, 239>>, <<0, 0, 0, 0, 0, 0, 136, 108>>>> :>
    <<89, 106, 157, 19, 63, 6, 163, 47, 197, 47, 55, 219, 181, 165, 126, 159, 188, 151, 162, 175>> @@
  <<<<72, 101, 108, 108, 111, 33, 222, 173, 190, 240>>, <<0, 0, 0, 0, 0, 0, 136, 108>>>> :>
    <<15, 153, 47, 224, 142, 98, 190, 205, 73, 123, 16, 199, 194, 243, 113, 75, 241, 142, 155, 85>> @@
  <<<<72, 101, 108, 108, 111, 33, 222, 173, 190, 239>>, <<0, 0, 0, 0, 0, 0, 136, 109>>>> :>
    <<154, 30, 218, 213, 91, 172, 59, 47, 116, 100, 16, 127, 50, 49, 138, 38, 195, 121, 176, 27>> @@
  <<<<72, 101, 108, 108, 111, 33, 222, 173, 190, 240>>, <<0, 0, 0, 0, 0, 0, 136, 109>>>> :>
    <<183, 189, 130, 247, 83, 23, 50, 45, 23, 90, 117, 244, 169, 90, 50, 178, 144, 176, 109, 94>> @@
  <<<<72, 101, 108, 108, 111, 33, 222, 173, 190, 239>>, <<0, 0, 0, 0, 0, 0, 136, 110>>>> :>
    <<176, 188, 67, 154, 8, 93, 31, 152, 203, 180, 35, 221, 173, 29, 71, 127, 225, 240, 242, 206>> @@
  <<<<72, 101, 108, 108, 111, 33, 222, 173, 190, 240>>, <<0, 0, 0, 0, 0, 0, 136, 110>>>> :>
    <<193, 172, 10, 149, 244, 94, 110, 11, 213, 145, 58, 2, 218, 71, 1, 14, 23, 119, 244, 219>> @@
  <<<<72, 101, 108, 108, 111, 33, 222, 173, 190, 239>>, <<0, 0, 0, 0, 0, 0, 136, 111>>>> :>
    <<58, 206, 20, 195, 173, 13, 102, 35, 158, 143, 151, 52, 107, 49, 244, 165, 191, 14, 89, 116>> @@
  <<<<72, 101, 108, 108, 111, 33, 222, 173, 190, 240>>, <<0, 0, 0, 0, 0, 0, 136, 111>>>> :>
    <<229, 79, 246, 57, 209, 26, 140, 126, 150, 202, 217, 188, 223, 85, 169, 136, 188, 36, 146, 14>> @@
  <<<<72, 101, 108, 108, 111, 33, 222, 173, 190, 239>>, <<0, 0, 0, 0, 0, 0, 136, 112>>>> :>
    <<163, 123, 7, 83, 135, 74, 197, 84, 217, 37, 196, 193, 38, 153, 91, 188, 42, 43, 43, 162>> @@
  <<<<72, 101, 108, 108, 111, 33, 222, 173, 190, 240>>, <<0, 0, 0, 0, 0, 0, 136, 112>>>> :>
    <<253, 248, 15, 144, 109, 248, 199, 142, 67, 18, 224, 80, 248, 8, 163, 192, 206, 37, 35, 75>> @@
  <<<<72, 101, 108, 108, 111, 33, 222, 173, 190, 239>>, <<0, 0, 0, 0, 0, 0, 136, 113>>>> :>
    <<169, 64, 138, 19, 128, 68, 99, 90, 2, 16, 229, 28, 140, 224, 243, 118, 34, 48, 248, 143>> @@
  <<<<72, 101, 108, 108, 111, 33, 222, 173, 190, 240>>, <<0, 0, 0, 0, 0, 0, 136, 113>>>> :>
    <<82, 135, 141, 243, 10, 83, 135, 213, 115, 152, 107, 178, 172, 140, 86, 208, 60, 17, 18, 156>> @@
  <<<<72, 101, 108, 108, 111, 33, 222, 173, 190, 239>>, <<0, 0, 0, 0, 0, 0, 136, 114>>>> :>
    <<10, 212, 46, 98, 97, 81, 72, 204, 83, 157, 243, 87, 124, 224, 216, 90, 223, 237, 103, 224>> @@
  <<<<72, 101, 108, 108, 111, 33, 222, 173, 190, 240>>, <<0, 0, 0, 0, 0, 0, 136, 114>>>> :>
    <<246, 18, 94, 193, 217, 204, 86, 231, 138, 5, 160, 192, 30, 242, 208, 101, 105, 102, 57, 12>> @@
  <<<<72, 101, 108, 108, 111, 33, 222, 173, 190, 239>>, <<0, 0, 0, 0, 0, 0, 136, 115>>>> :>
    <<80, 155, 209, 85, 100, 101, 84, 103, 151, 116, 135, 253, 227, 126, 223, 55, 222, 16, 33, 143>> @@
  <<<<72, 101, 108, 108, 111, 33, 222, 173, 190, 240>>, <<0, 0, 0, 0, 0, 0, 136, 115>>>> :>
    <<154, 21, 206, 213, 12, 204, 117, 53, 209, 207, 88, 198, 210, 39, 5, 61, 103, 152, 183, 14>>

sign(key, data) == HmacSha1[<<key, data>>]

RECURSIVE toString(_)
toString(n) ==
  IF n < 10 THEN <<DecimalDigits[n + 1]>>
  ELSE Append(toString(n \div 10), DecimalDigits[(n % 10) + 1])

RECURSIVE padStart(_, _, _)
padStart(s, n, ch) == IF Len(s) >= n THEN s ELSE padStart(<<ch>> \o s, n, ch)

\* a 32-bit value as the signed number JavaScript takes it for
ToSigned(v) ==
  IF v.hi >= 32768 THEN ((v.hi - 65536) * 65536) + v.lo ELSE (v.hi * 65536) + v.lo

\* hmac[i] & mask: an index outside the array reads undefined, and undefined & mask is 0
ByteAt(hmac, i, mask) == IF i < Len(hmac) THEN hmac[i + 1] % (mask + 1) ELSE 0

\* a truncation that masks the first byte with 0xff
dynamicTruncationUnmasked(hmac) ==
  LET offset == hmac[Len(hmac)] % 16
      code   == Int32((ByteAt(hmac, offset, 255) * 256) + ByteAt(hmac, offset + 1, 255),
                      (ByteAt(hmac, offset + 2, 255) * 256) + ByteAt(hmac, offset + 3, 255))
  IN  [offset |-> offset, inside |-> offset + 3 < Len(hmac), code |-> ToSigned(code)]

\* lines 84-89: offset from the last byte, then four bytes shifted and or-ed
\* into one 32-bit value
dynamicTruncation(hmac) ==
  LET offset == hmac[Len(hmac)] % 16
      code   == Int32((ByteAt(hmac, offset, 127) * 256) + ByteAt(hmac, offset + 1, 255),
                      (ByteAt(hmac, offset + 2, 255) * 256) + ByteAt(hmac, offset + 3, 255))
  IN  [offset |-> offset, inside |-> offset + 3 < Len(hmac), code |-> ToSigned(code)]

\* a % b of JavaScript: the result has the sign of a
Remainder(a, b) ==
  LET r == a % b
  IN  IF a >= 0 \/ r = 0 THEN r ELSE r - b

\* Number.prototype.toString of an integer
numberToString(n) == IF n < 0 THEN <<"-">> \o toString(0 - n) ELSE toString(n)

\* line 91: (code % 1_000_000).toString().padStart(6, '0')
sixDigits(code) == padStart(numberToString(Remainder(code, 1000000)), 6, "0")

\* hotp: dynamic truncation of the digest, six decimal digits
hotp(secretBytes, counter) ==
  sixDigits(dynamicTruncation(sign(secretBytes, counterToBytes(counter))).code)

\* SHA-256 of a string: equal digests exactly for equal strings
sha256(s) == [sha256 |-> s]

\* a comparison of the raw strings that stops at the first difference
timingSafeEqualCharByChar(a, b) ==
  LET n    == IF Len(a) < Len(b) THEN Len(a) ELSE Len(b)
      diff == {i \in 1..n : a[i] # b[i]}
      upto == IF diff = {} THEN n ELSE CHOOSE i \in diff : \A k \in diff : i <= k
  IN  [value |-> a = b, work |-> [i \in 1..upto |-> "compareChar"]]

\* timingSafeEqual: the verdict, and the primitive operations it performs
timingSafeEqual(a, b) ==
  [value |-> sha256(a) = sha256(b), work |-> <<"digest", "digest", "timingSafeEqual">>]

JSNullString == [null |-> TRUE]

\* a sanitizer that only trims the ends
sanitizeTokenTrim(raw) ==
  LET lead  == CHOOSE k \in 0..Len(raw) :
                 /\ \A i \in 1..k : raw[i] \in Whitespace
                 /\ k < Len(raw) => raw[k + 1] \notin Whitespace
      rest  == SubSeq(raw, lead + 1, Len(raw))
      keep  == CHOOSE k \in 0..Len(rest) :
                 /\ \A i \in (k + 1)..Len(rest) : rest[i] \in Whitespace
                 /\ k > 0 => rest[k] \notin Whitespace
      token == SubSeq(rest, 1, keep)
  IN  IF Len(token) = 6 /\ \A i \in 1..Len(token) : indexOf(DecimalDigits, token[i]) # -1
      THEN [null |-> FALSE, s |-> token]
      ELSE JSNullString

\* a sanitizer whose pattern is not anchored at the end
sanitizeTokenFirstSix(raw) ==
  LET token == replaceAll(raw, Whitespace)
  IN  IF Len(token) >= 6 /\ \A i \in 1..6 : indexOf(DecimalDigits, token[i]) # -1
      THEN [null |-> FALSE, s |-> SubSeq(token, 1, 6)]
      ELSE JSNullString

\* sanitizeToken: whitespace removed; null unless exactly six ASCII digits remain
sanitizeToken(raw) ==
  LET token == replaceAll(raw, Whitespace)
  IN  IF Len(token) = 6 /\ \A i \in 1..Len(token) : indexOf(DecimalDigits, token[i]) # -1
      THEN [null |-> FALSE, s |-> token]
      ELSE JSNullString

\* a window that looks back only
DeltasPastOnly == <<-1, 0>>

\* a window two steps wide on either side
DeltasWide == <<-2, -1, 0, 1, 2>>

\* the window of verifyToken
Deltas == <<-1, 0, 1>>

STEP_MS == 30000

RECURSIVE verifyWindow(_, _, _, _, _)
verifyWindow(cleaned, secretBytes, currentStep, deltas, log) ==
  IF deltas = <<>> THEN [threw |-> FALSE, value |-> FALSE, log |-> log]
  ELSE LET expected == hotp(secretBytes, currentStep + Head(deltas))
           equal    == timingSafeEqual(cleaned, expected)
           log1     == Append(log, "hotp") \o equal.work
       IN  IF equal.value
           THEN [threw |-> FALSE, value |-> TRUE, log |-> log1]
           ELSE verifyWindow(cleaned, secretBytes, currentStep, Tail(deltas), log1)

\* a verifier that lets the decoder's exception escape
verifyTokenNoCatch(secret, token, now) ==
  LET cleaned == sanitizeToken(token)
      decoded == base32Decode(secret)
  IN  IF cleaned.null THEN [threw |-> FALSE, value |-> FALSE, log |-> <<>>]
      ELSE IF decoded.threw
           THEN [threw |-> TRUE, value |-> FALSE, log |-> <<"base32Decode">>]
           ELSE verifyWindow(cleaned.s, decoded.bytes, now \div STEP_MS, Deltas,
                             <<"base32Decode">>)

\* a verifier that decodes the secret before it looks at the token
verifyTokenDecodeFirst(secret, token, now) ==
  LET cleaned == sanitizeToken(token)
      decoded == base32Decode(secret)
  IN  IF decoded.threw
      THEN [threw |-> FALSE, value |-> FALSE, log |-> <<"base32Decode", "console.error">>]
      ELSE IF cleaned.null
           THEN [threw |-> FALSE, value |-> FALSE, log |-> <<"base32Decode">>]
           ELSE verifyWindow(cleaned.s, decoded.bytes, now \div STEP_MS, Deltas,
                             <<"base32Decode">>)

\* verifyToken at Date.now() = now: whether it threw, the verdict and the work done
verifyToken(secret, token, now) ==
  LET cleaned == sanitizeToken(token)
      decoded == base32Decode(secret)
  IN  IF cleaned.null THEN [threw |-> FALSE, value |-> FALSE, log |-> <<>>]
      ELSE IF decoded.threw
           THEN [threw |-> FALSE, value |-> FALSE,
                 log |-> <<"base32Decode", "console.error">>]
           ELSE verifyWindow(cleaned.s, decoded.bytes, now \div STEP_MS, Deltas,
                             <<"base32Decode">>)

(* ------------------------- the verifier's inputs ----------------------- *)
\* the example secrets of the README
Secret1 == <<"J", "B", "S", "W", "Y", "3", "D", "P", "E", "H", "P", "K", "3", "P", "X", "P">>

Secret2 == <<"J", "B", "S", "W", "Y", "3", "D", "P", "E", "H", "P", "K", "3", "P", "X", "Q">>

\* Secret1 as an operator may paste it: lower case, grouped, padded
Secret1Pasted == <<"j", "b", "s", "w", " ", "y", "3", "d", "p", " ", "e", "h", "p", "k", " ", "3", "p", "x", "p", "=", "=">>

\* a secret with a character outside the alphabet
SecretUndecodable == <<"J", "B", "S", "W", "Y", "3", "D", "P", "E", "H", "P", "K", "3", "P", "X", "1">>

Secrets == {Secret1, Secret2, Secret1Pasted, SecretUndecodable}

\* time steps around which the verifier is exercised
BaseSteps == {492, 1109, 34925}

MaxDrift == 2

\* steps at which an authenticator generates the submitted code
GenSteps == UNION {{b - 1, b, b + 1} : b \in BaseSteps}

\* values of Date.now(): the first and the last millisecond of a step
Nows ==
  {((b + d) * STEP_MS) + off : b \in BaseSteps, d \in (0 - MaxDrift)..MaxDrift, off \in {0, STEP_MS - 1}}

GenCodes == {hotp(base32Decode(s).bytes, t) : s \in {Secret1, Secret2}, t \in GenSteps}

\* the digit after d, cyclically
OtherDigit(d) == DecimalDigits[((indexOf(DecimalDigits, d) + 1) % 10) + 1]

\* what a user may type for a code
Typed(code) ==
  {code,
   SubSeq(code, 1, 5) \o <<OtherDigit(code[6])>>,
   <<OtherDigit(code[1])>> \o SubSeq(code, 2, 6),
   SubSeq(code, 1, 3) \o <<" ">> \o SubSeq(code, 4, 6),
   <<"\t">> \o code \o <<"\n">>,
   SubSeq(code, 1, 5),
   code \o <<"0">>,
   SubSeq(code, 1, 5) \o <<"x">>}

RawTokens ==
  UNION {Typed(code) : code \in GenCodes}
    \cup {<<>>, <<" ">>, <<"0", "0", "0", "0", "0", "0">>, <<"a", "b", "c", "d", "e", "f">>}

(* --------------------- the verifier as a state machine ----------------- *)
\* a room that has just been created
RoomFresh ==
  /\ store = <<>>
  /\ status = [c \in Conns |-> "free"]
  /\ attachment = [c \in Conns |-> NullAttachment]
  /\ trace = <<>>

InitTotp ==
  /\ RoomFresh
  /\ env = EnvNone
  /\ http = <<>>
  /\ \E secret \in Secrets, token \in RawTokens, now \in Nows : totp = TotpCall(secret, token, now)
  /\ codec = CodecNone
  /\ trunc = TruncNone

VerifyToken ==
  /\ ~totp.done
  /\ LET r == verifyToken(totp.secret, totp.token, totp.now)
     IN  totp' = [totp EXCEPT !.done = TRUE, !.threw = r.threw, !.value = r.value,
                              !.log = r.log]
  /\ UNCHANGED <<store, status, attachment, trace, env, http, codec, trunc>>

NextTotp == VerifyToken

SpecTotp == InitTotp /\ [][NextTotp]_vars

(***************************************************************************)
(* The Worker (src/src/index.ts): POST /auth and GET /ws in front of the   *)
(* room.  http is the ordered record of the requests served.               *)
(***************************************************************************)
MaxRequests == 2

JwtKey == <<"k">>

\* what the environment may hold: the TOTP secrets and the signing key
EnvConfigs ==
  {Env(Binding(JwtKey), Binding(Secret1), Binding(Secret2)),
   Env(Unset, Binding(Secret1), Binding(Secret2)),
   Env(Binding(JwtKey), Unset, Binding(Secret2)),
   Env(Binding(JwtKey), Binding(Secret1), Binding(Secret1Pasted)),
   Env(Binding(JwtKey), Binding(Secret1), Binding(SecretUndecodable))}

SESSION_SECONDS == 2592000

\* hono/jwt sign with HS256: the payload under the key
jwtSign(payload, secret) == [kind |-> "jwt", payload |-> payload, key |-> secret]

NoPayload == [username |-> "", exp |-> 0]

NoCookie == [kind |-> "none", payload |-> NoPayload, key |-> <<>>]

EmptyCookie == [kind |-> "empty", payload |-> NoPayload, key |-> <<>>]

GarbageCookie == [kind |-> "garbage", payload |-> NoPayload, key |-> <<>>]

\* hono/jwt verify: throws for a malformed token, a wrong signature, an expired token
jwtVerify(token, secret, nowSec) ==
  IF token.kind # "jwt" \/ token.key # secret \/ token.payload.exp <= nowSec
  THEN [threw |-> TRUE, payload |-> NoPayload]
  ELSE [threw |-> FALSE, payload |-> token.payload]

Response(st, body) == [status |-> st, body |-> body]

Effect(op, n, ok, token) == [op |-> op, n |-> n, ok |-> ok, token |-> token]

\* an exception no handler catches: the framework answers 500
Thrown(effects) ==
  [resp |-> Response(500, [text |-> "Internal Server Error"]), effects |-> effects]

\* c.req.json() of the request bodies a client may post, and the code in them
JSBody(code) == [t |-> "object", code |-> code]

AuthCodes ==
  {hotp(base32Decode(Secret1).bytes, 492),
   hotp(base32Decode(Secret2).bytes, 492),
   hotp(base32Decode(Secret2).bytes, 34925),
   <<"0", "0", "0", "0", "0", "0">>}

AuthBodies ==
  {[threw |-> TRUE, value |-> JSNull], [threw |-> FALSE, value |-> JSNull],
   [threw |-> FALSE, value |-> JSBody(JSUndefined)],
   [threw |-> FALSE, value |-> JSBody(JSNumber(123456))]}
    \cup {[threw |-> FALSE, value |-> JSBody(JSString(code))] : code \in AuthCodes}
    \cup {[threw |-> FALSE,
           value |-> JSBody(JSString(<<"4", "8", "7", " ", "5", "7", "7">>))]}

AuthNows == {492 * STEP_MS, (34925 * STEP_MS) + STEP_MS - 1}

\* a handler without the both-valid test: the first secret wins
authDecideFirstWins(e, now, valid1, valid2, nobody) ==
  LET checks   == <<Effect("verifyToken", 1, valid1, NoCookie),
                    Effect("verifyToken", 2, valid2, NoCookie)>>
      username == IF valid1 THEN "User1" ELSE IF valid2 THEN "User2" ELSE nobody
      token    == jwtSign([username |-> username, exp |-> (now \div 1000) + SESSION_SECONDS],
                          e.JWT_SECRET.v)
  IN  IF username = ""
      THEN [resp |-> Response(401, [error |-> "Invalid TOTP code"]), effects |-> checks]
      ELSE IF Falsy(e.JWT_SECRET)
      THEN [resp |-> Response(500, [error |-> "JWT Secret not configured"]),
            effects |-> checks]
      ELSE [resp |-> Response(200, [success |-> TRUE, username |-> username]),
            effects |-> checks \o <<Effect("sign", 0, TRUE, token),
                                    Effect("setCookie", 0, TRUE, token)>>]

\* the handler from the both-valid test on, given the two verdicts; nobody is
\* the username left when neither code matched
authDecide(e, now, valid1, valid2, nobody) ==
  LET checks   == <<Effect("verifyToken", 1, valid1, NoCookie),
                    Effect("verifyToken", 2, valid2, NoCookie)>>
      username == IF valid1 THEN "User1" ELSE IF valid2 THEN "User2" ELSE nobody
      token    == jwtSign([username |-> username, exp |-> (now \div 1000) + SESSION_SECONDS],
                          e.JWT_SECRET.v)
  IN  IF valid1 /\ valid2
      THEN [resp |-> Response(401, [error |-> "Just a small technical issue"]),
            effects |-> checks]
      ELSE IF username = ""
      THEN [resp |-> Response(401, [error |-> "Invalid TOTP code"]), effects |-> checks]
      ELSE IF Falsy(e.JWT_SECRET)
      THEN [resp |-> Response(500, [error |-> "JWT Secret not configured"]),
            effects |-> checks]
      ELSE [resp |-> Response(200, [success |-> TRUE, username |-> username]),
            effects |-> checks \o <<Effect("sign", 0, TRUE, token),
                                    Effect("setCookie", 0, TRUE, token)>>]

\* await Promise.all of the two verifyToken calls: a rejection leaves the handler
authVerified(e, now, r1, r2, nobody) ==
  IF r1.threw \/ r2.threw THEN Thrown(<<>>)
  ELSE authDecide(e, now, r1.value, r2.value, nobody)

\* a handler that falls back to User2 when no secret matched
authDefaultUser(e, body, now) ==
  IF body.threw \/ body.value.t # "object" THEN Thrown(<<>>)
  ELSE IF Falsy(e.TOTP_SECRET_1) \/ Falsy(e.TOTP_SECRET_2)
  THEN [resp |-> Response(500, [error |-> "TOTP Secret not configured"]), effects |-> <<>>]
  ELSE IF body.value.code.t # "string" THEN Thrown(<<>>)
  ELSE authVerified(e, now,
                    verifyToken(e.TOTP_SECRET_1.v, body.value.code.s, now),
                    verifyToken(e.TOTP_SECRET_2.v, body.value.code.s, now), "User2")

\* POST /auth at Date.now() = now
auth(e, body, now) ==
  IF body.threw \/ body.value.t # "object" THEN Thrown(<<>>)
  ELSE IF Falsy(e.TOTP_SECRET_1) \/ Falsy(e.TOTP_SECRET_2)
  THEN [resp |-> Response(500, [error |-> "TOTP Secret not configured"]), effects |-> <<>>]
  ELSE IF body.value.code.t # "string" THEN Thrown(<<>>)
  ELSE authVerified(e, now,
                    verifyToken(e.TOTP_SECRET_1.v, body.value.code.s, now),
                    verifyToken(e.TOTP_SECRET_2.v, body.value.code.s, now), "")

\* a middleware that reads the payload without checking the signature
wsMiddlewareDecodeOnly(e, cookie, nowSec) ==
  IF cookie.kind \in {"none", "empty"} THEN [next |-> FALSE, user |-> ""]
  ELSE IF Falsy(e.JWT_SECRET) THEN [next |-> FALSE, user |-> ""]
  ELSE IF cookie.kind # "jwt" THEN [next |-> FALSE, user |-> ""]
  ELSE [next |-> TRUE, user |-> cookie.payload.username]

\* the middleware of /ws: the verified username, or no next()
wsMiddleware(e, cookie, nowSec) ==
  IF cookie.kind \in {"none", "empty"} THEN [next |-> FALSE, user |-> ""]
  ELSE IF Falsy(e.JWT_SECRET) THEN [next |-> FALSE, user |-> ""]
  ELSE LET v == jwtVerify(cookie, e.JWT_SECRET.v, nowSec)
       IN  IF v.threw THEN [next |-> FALSE, user |-> ""]
           ELSE [next |-> TRUE, user |-> v.payload.username]

\* a route that appends the verified user after the client's own username
\* parameter, so that searchParams.get in the room finds the client's first
wsRouteKeepingClientParam(e, m, req, ws, joinedAt, now, tie) ==
  LET mw == wsMiddleware(e, req.cookie, req.nowSec)
  IN  IF ~mw.next THEN [resp |-> Response(401, [text |-> "Unauthorized"]), room |-> m]
      ELSE IF req.upgrade # "websocket"
      THEN [resp |-> Response(426, [text |-> "Expected Upgrade: websocket"]), room |-> m]
      ELSE [resp |-> Response(101, [text |-> ""]),
            room |-> fetch(m, ws,
                           IF req.username.null THEN [null |-> FALSE, s |-> mw.user]
                           ELSE req.username,
                           joinedAt, now, tie)]

\* GET /ws: the middleware, the Upgrade check, then the room's fetch with the
\* username parameter set to the verified user
wsRoute(e, m, req, ws, joinedAt, now, tie) ==
  LET mw == wsMiddleware(e, req.cookie, req.nowSec)
  IN  IF ~mw.next THEN [resp |-> Response(401, [text |-> "Unauthorized"]), room |-> m]
      ELSE IF req.upgrade # "websocket"
      THEN [resp |-> Response(426, [text |-> "Expected Upgrade: websocket"]), room |-> m]
      ELSE [resp |-> Response(101, [text |-> ""]),
            room |-> fetch(m, ws, [null |-> FALSE, s |-> mw.user], joinedAt, now, tie)]

\* the cookies a client may present: none, junk, a token signed with another
\* key, an expired one, one from an earlier login, and those issued so far
Cookies ==
  {NoCookie, EmptyCookie, GarbageCookie,
   jwtSign([username |-> "User1", exp |-> 2 * SESSION_SECONDS], <<"x">>),
   jwtSign([username |-> "User1", exp |-> 1], JwtKey),
   jwtSign([username |-> "User2", exp |-> SESSION_SECONDS], JwtKey)}
    \cup {http[i].effects[k].token :
            i \in {n \in 1..Len(http) : http[n].route = "/auth" /\ Len(http[n].effects) = 4},
            k \in {4}}

InitWorker ==
  /\ RoomFresh
  /\ env \in EnvConfigs
  /\ http = <<>>
  /\ totp = TotpNone
  /\ codec = CodecNone
  /\ trunc = TruncNone

MayRequest == Len(http) < MaxRequests

Auth ==
  /\ MayRequest
  /\ \E body \in AuthBodies, now \in AuthNows :
       LET r == auth(env, body, now)
       IN  http' = Append(http, [route |-> "/auth", req |-> [body |-> body, now |-> now],
                                 resp |-> r.resp, effects |-> r.effects])
  /\ UNCHANGED <<store, status, attachment, trace, env, totp, codec, trunc>>

Ws ==
  /\ MayRequest
  /\ FreeConns # {}
  /\ \E cookie \in Cookies, upgrade \in {"websocket", "none"},
        param \in {NoParam, [null |-> FALSE, s |-> "User1"]}, nowMs \in AuthNows,
        joinedAt \in Clock, now \in Clock, tie \in TieOrders :
       LET req == [cookie |-> cookie, upgrade |-> upgrade, username |-> param,
                   nowSec |-> nowMs \div 1000]
           r   == wsRoute(env, Machine, req, NextConn, joinedAt, now, tie)
       IN  /\ http' = Append(http, [route |-> "/ws", req |-> req, resp |-> r.resp,
                                    effects |-> <<>>])
           /\ store' = r.room.store
           /\ status' = r.room.status
           /\ attachment' = r.room.attachment
           /\ trace' = r.room.trace
  /\ UNCHANGED <<env, totp, codec, trunc>>

NextWorker == Auth \/ Ws

SpecWorker == InitWorker /\ [][NextWorker]_vars


(***************************************************************************)
(* The secret generator (src/scripts/generate-secrets.ts): base32Encode,   *)
(* and the round trip through base32Decode of the verifier.                *)
(***************************************************************************)
\* (value << 8) | byte, in 32 bits
ShiftLeft8Or(value, byte) ==
  Int32((value.hi * 256 + (value.lo \div 256)) % 65536, ((value.lo * 256) % 65536) + byte)

\* (value >>> k) & 31 for k <= 11: only the low half contributes
ShiftRight5Bits(value, k) == (value.lo \div (2 ^ k)) % 32

RECURSIVE encodeDrain(_, _, _)
\* while (bits >= 5) { output += ...; bits -= 5 }
encodeDrain(value, bits, output) ==
  IF bits >= 5
  THEN encodeDrain(value, bits - 5,
                   Append(output, BASE32_ALPHABET[ShiftRight5Bits(value, bits - 5) + 1]))
  ELSE [bits |-> bits, output |-> output]

RECURSIVE encodeLoop(_, _, _, _, _)
encodeLoop(data, i, bits, value, output) ==
  IF i > Len(data) THEN [bits |-> bits, value |-> value, output |-> output]
  ELSE LET v == ShiftLeft8Or(value, data[i])
           d == encodeDrain(v, bits + 8, output)
       IN  encodeLoop(data, i + 1, d.bits, v, d.output)

\* an encoder that drops the bits left over after the last whole group
base32EncodeNoTail(data) == encodeLoop(data, 1, 0, Int32(0, 0), <<>>).output

\* base32Encode: unpadded RFC 4648 text of the bytes
base32Encode(data) ==
  LET r == encodeLoop(data, 1, 0, Int32(0, 0), <<>>)
  IN  IF r.bits > 0
      THEN Append(r.output, BASE32_ALPHABET[((r.value.lo * (2 ^ (5 - r.bits))) % 32) + 1])
      ELSE r.output

MaxBytes == 3

\* byte values at the edges of the range and of the 5-bit groups
ByteValues == {0, 1, 127, 128, 255}

RECURSIVE ByteSeqs(_)
ByteSeqs(n) ==
  IF n = 0 THEN {<<>>}
  ELSE {Append(q, b) : q \in ByteSeqs(n - 1), b \in ByteValues}

\* short byte sequences of every length, and 20-byte sequences as the generator draws them
CodecInputs ==
  UNION {ByteSeqs(n) : n \in 0..MaxBytes}
    \cup {HmacSha1[k] : k \in DOMAIN HmacSha1}
    \cup {[i \in 1..20 |-> 255], [i \in 1..20 |-> 0]}

InitCodec ==
  /\ RoomFresh
  /\ env = EnvNone
  /\ http = <<>>
  /\ totp = TotpNone
  /\ \E bytes \in CodecInputs : codec = CodecCall(bytes)
  /\ trunc = TruncNone

RoundTrip ==
  /\ ~codec.done
  /\ LET encoded == base32Encode(codec.bytes)
         decoded == base32Decode(encoded)
     IN  codec' = [codec EXCEPT !.done = TRUE, !.encoded = encoded,
                                !.threw = decoded.threw, !.decoded = decoded.bytes]
  /\ UNCHANGED <<store, status, attachment, trace, env, http, totp, trunc>>

NextCodec == RoundTrip

SpecCodec == InitCodec /\ [][NextCodec]_vars

(* ------------------ the truncation as a state machine ------------------ *)
\* 20-byte digests: those of the table, and for every offset and every high
\* nibble of the last byte the digests whose four addressed bytes take the
\* values at the edges of a byte
TruncInputs ==
  {HmacSha1[k] : k \in DOMAIN HmacSha1}
    \cup {[i \in 1..20 |-> IF i = 20 THEN (16 * n) + o
                           ELSE IF i \in (o + 1)..(o + 4) THEN q[i - o]
                           ELSE 0] :
            o \in 0..15, n \in {0, 8, 15}, q \in ByteSeqs(4)}

InitHotp ==
  /\ RoomFresh
  /\ env = EnvNone
  /\ http = <<>>
  /\ totp = TotpNone
  /\ codec = CodecNone
  /\ \E hmac \in TruncInputs : trunc = TruncCall(hmac)

Truncate ==
  /\ ~trunc.done
  /\ LET t == dynamicTruncation(trunc.hmac)
     IN  trunc' = [trunc EXCEPT !.done = TRUE, !.offset = t.offset, !.inside = t.inside,
                                !.code = t.code, !.text = sixDigits(t.code)]
  /\ UNCHANGED <<store, status, attachment, trace, env, http, totp, codec>>

NextHotp == Truncate

SpecHotp == InitHotp /\ [][NextHotp]_vars

(* ------------------------- reading the trace --------------------------- *)
Idx == 1..Len(trace)

Calls == {j \in Idx : trace[j].op = "call"}

\* the effects of the call at j: the entries up to the next call
Segment(j) == {i \in Idx : i > j /\ \A k \in Calls : k > j => i < k}

IsCallOf(j, h) == j \in Calls /\ trace[j].data.h = h

IsSend(i) == i \in Idx /\ trace[i].op = "send"

IsInsert(i) == i \in Idx /\ trace[i].op = "insert"

\* a send of a Chat Event: a payload of type message or system
IsEventSend(i) == IsSend(i) /\ trace[i].data.type \in {MSG_TYPE.MESSAGE, MSG_TYPE.SYSTEM}

IsHistorySend(i) == IsSend(i) /\ trace[i].data.type = MSG_TYPE.HISTORY

InsertsAfter(i) == {k \in Idx : k > i /\ IsInsert(k)}

\* the table as it was when trace[i] was recorded (the table is only appended to)
StoreAt(i) == SubSeq(store, 1, Len(store) - Cardinality(InsertsAfter(i)))

StoreIds == {store[k].id : k \in 1..Len(store)}

(* ------------------------------- claims -------------------------------- *)

\* C1: every message or system payload sent to a connection carries the id of a
\* row that an earlier insert of the same run appended and that the table holds.
C1_PersistedBeforeBroadcast ==
  \A i \in Idx :
    IsEventSend(i) =>
      /\ \E j \in 1..(i - 1) : IsInsert(j) /\ trace[j].data.id = trace[i].data.id
      /\ trace[i].data.id \in StoreIds

C1_Witness ==
  /\ \E i \in Idx : IsEventSend(i) /\ trace[i].data.type = MSG_TYPE.MESSAGE
  /\ \E i \in Idx : IsEventSend(i) /\ trace[i].data.type = MSG_TYPE.SYSTEM
                      /\ IsCallOf(CHOOSE j \in Calls : i \in Segment(j), "webSocketClose")

\* C2 (as claimed): an event a connection received live is in every history
\* payload sent afterwards, when fewer than HISTORY_LIMIT rows were inserted
\* between the two sends.
C2_LiveEventInLaterHistory ==
  \A i \in Idx : \A k \in Idx :
    ( /\ IsEventSend(i) /\ trace[i].ok
      /\ IsHistorySend(k) /\ k > i
      /\ Cardinality({n \in Idx : IsInsert(n) /\ i < n /\ n < k}) < HISTORY_LIMIT )
    => \E n \in 1..Len(trace[k].data.messages) :
         trace[k].data.messages[n].id = trace[i].data.id

\* the sends addressed to connection c
SendsTo(c) == {i \in Idx : IsSend(i) /\ trace[i].ws = c}

JoinText(username) == JSString(username \o " joined the room.")

LeaveText(username) == JSString(username \o " left the room.")

\* C3: for every accepted connection the history payload is the first thing sent
\* to it, and the system payload announcing its join is sent to it afterwards.
C3_HistoryBeforeOwnJoin ==
  \A j \in Calls :
    (IsCallOf(j, "fetch") /\ trace[j].ws # 0) =>
      LET c == trace[j].ws
      IN  \E h \in Segment(j) :
            /\ IsHistorySend(h) /\ trace[h].ws = c
            /\ \A i \in SendsTo(c) : i >= h
            /\ \A i \in SendsTo(c) : IsHistorySend(i) => i = h
            /\ \E a \in Segment(j) :
                 /\ a > h /\ IsSend(a) /\ trace[a].ws = c
                 /\ trace[a].data.type = MSG_TYPE.SYSTEM
                 /\ trace[a].data.text = JoinText(attachment[c].username)

C3_Witness ==
  \E j \in Calls : \E k \in Calls :
    /\ j < k /\ IsCallOf(j, "fetch") /\ IsCallOf(k, "fetch")
    /\ trace[j].ws # 0 /\ trace[k].ws # 0
    /\ Cardinality(SendsTo(trace[j].ws)) >= 3

\* the submitted frame is JSON with a non-empty string in text
HasNonEmptyTextString(raw) ==
  LET p == JSONparse(raw)
  IN  /\ ~p.threw /\ p.value.t = "object"
      /\ p.value.text.t = "string" /\ p.value.text.s # ""

\* C4: a frame with a non-empty text string is inserted once and sent exactly
\* once, as a message payload with the stored id, the sender's attached
\* identity, the submitted text and the stored timestamp, to each connection
\* live at the call (the sender included) and to no other.
C4_MessageSentOncePerLiveConnection ==
  \A j \in Calls :
    (IsCallOf(j, "webSocketMessage") /\ HasNonEmptyTextString(trace[j].data.arg)) =>
      LET seg == Segment(j)
          ins == {i \in seg : IsInsert(i)}
          ws  == trace[j].ws
      IN  /\ Cardinality(ins) = 1
          /\ ws \in trace[j].data.live
          /\ \A n \in ins : \A c \in Conns :
               LET got == {i \in seg : IsSend(i) /\ trace[i].ws = c}
               IN  IF c \in trace[j].data.live
                   THEN /\ Cardinality(got) = 1
                        /\ \A i \in got :
                             /\ trace[i].data =
                                  [type |-> MSG_TYPE.MESSAGE, id |-> trace[n].data.id,
                                   user |-> attachment[ws].username,
                                   text |-> JSONparse(trace[j].data.arg).value.text,
                                   timestamp |-> trace[n].data.timestamp]
                             /\ trace[n].data.id \in StoreIds
                   ELSE got = {}

C4_Witness ==
  \E j \in Calls :
    /\ IsCallOf(j, "webSocketMessage") /\ HasNonEmptyTextString(trace[j].data.arg)
    /\ Cardinality(trace[j].data.live) = 2
    /\ Cardinality({i \in Segment(j) : IsSend(i)}) = 2

\* C5: the ids of the stored rows, in append order, each exceed the previous
\* one by exactly one (so they are unique, increasing and gap-free).
C5_IdsGapFree ==
  /\ \A k \in 2..Len(store) : store[k].id = store[k - 1].id + 1
  /\ \A i \in Idx : \A k \in Idx :
       (IsInsert(i) /\ IsInsert(k) /\ i < k) => trace[i].data.id < trace[k].data.id

C5_Witness ==
  /\ \E i \in Idx : IsInsert(i) /\ trace[i].data.type = MSG_TYPE.MESSAGE
  /\ \E i \in Idx : IsInsert(i) /\ trace[i].data.text = LeaveText("User2")
  /\ Cardinality({i \in Idx : IsInsert(i)}) >= 3

\* the call at j is the first well-formed {text:"hi"} frame of a room that started
\* empty and has stored nothing but the join rows of the two live connections
FirstMessageAfterTwoJoins(j) ==
  /\ IsCallOf(j, "webSocketMessage")
  /\ trace[j].data.arg = "{\"text\":\"hi\"}"
  /\ Cardinality(trace[j].data.live) = 2
  /\ Len(StoreAt(j)) = 2
  /\ \A c \in trace[j].data.live :
       \E f \in Calls :
         /\ f < j /\ IsCallOf(f, "fetch") /\ trace[f].ws = c
         /\ \E i \in Segment(f) : IsInsert(i)
                                   /\ trace[i].data.text = JoinText(attachment[c].username)

\* the message payload with the given id reached every connection live at call j
DeliveredToAllWithId(j, id) ==
  \A c \in trace[j].data.live :
    \E i \in Segment(j) :
      /\ IsSend(i) /\ trace[i].ws = c /\ trace[i].ok
      /\ trace[i].data = [type |-> MSG_TYPE.MESSAGE, id |-> id,
                          user |-> attachment[trace[j].ws].username,
                          text |-> JSString("hi"),
                          timestamp |-> trace[i].data.timestamp]

\* C6 (as claimed): in a fresh room with A and B joined, A's first {text:"hi"}
\* reaches A and B as a message payload with author A, text "hi" and id 1.
C6_FirstMessageHasId1 ==
  \A j \in Calls : FirstMessageAfterTwoJoins(j) => DeliveredToAllWithId(j, 1)

\* C6 (amended): the same payload carries id 3, the join rows having taken 1 and 2.
C6_FirstMessageHasId3 ==
  \A j \in Calls : FirstMessageAfterTwoJoins(j) => DeliveredToAllWithId(j, 3)

C6_Witness ==
  \E j \in Calls :
    /\ FirstMessageAfterTwoJoins(j)
    /\ \E c \in trace[j].data.live : attachment[c].username # attachment[trace[j].ws].username

Min(a, b) == IF a < b THEN a ELSE b

\* the last Min(limit, n) rows of a log of n rows, in append order
LogSuffix(rows, limit) == SubSeq(rows, Len(rows) - Min(limit, Len(rows)) + 1, Len(rows))

\* C7 (as claimed): every history payload is the last min(50, n) rows of the log
\* as it stood at the send, oldest first, in append order.
C7_HistoryIsLogSuffix ==
  \A h \in Idx :
    IsHistorySend(h) => trace[h].data.messages = LogSuffix(StoreAt(h), HISTORY_LIMIT)

SeqRange(q) == {q[i] : i \in 1..Len(q)}

\* C8: a history payload never has more than HISTORY_LIMIT rows, and has every
\* stored row exactly once when the table holds HISTORY_LIMIT rows or fewer.
C8_HistoryCapped ==
  \A h \in Idx :
    IsHistorySend(h) =>
      LET msgs == trace[h].data.messages
          snap == StoreAt(h)
      IN  /\ Len(msgs) <= HISTORY_LIMIT
          /\ Len(snap) <= HISTORY_LIMIT =>
               (Len(msgs) = Len(snap) /\ SeqRange(msgs) = SeqRange(snap))

C8_Witness ==
  /\ \E h \in Idx : /\ IsHistorySend(h)
                    /\ Len(StoreAt(h)) > HISTORY_LIMIT
                    /\ Len(trace[h].data.messages) = HISTORY_LIMIT
  /\ \E h \in Idx : /\ IsHistorySend(h)
                    /\ Len(StoreAt(h)) \in 1..HISTORY_LIMIT
                    /\ Len(trace[h].data.messages) = Len(StoreAt(h))

\* the submitted frame does not parse, or parses to a value without a text field
Malformed(raw) ==
  LET p == JSONparse(raw)
  IN  p.threw \/ p.value.t # "object" \/ p.value.text.t = "undefined"

\* C9 (as claimed): a frame that does not parse or has no text field makes the
\* handler send exactly one payload, the error payload, to the sender.
C9_MalformedGetsOneError ==
  \A j \in Calls :
    (IsCallOf(j, "webSocketMessage") /\ Malformed(trace[j].data.arg)) =>
      LET got == {i \in Segment(j) : IsSend(i) /\ trace[i].ws = trace[j].ws}
      IN  /\ Cardinality(got) = 1
          /\ \A i \in got : trace[i].data = ErrorPayload

\* C10: a frame that does not parse or has no text field inserts no row and
\* sends nothing to a connection other than the sender.
C10_MalformedLeavesStoreAndOthersAlone ==
  \A j \in Calls :
    (IsCallOf(j, "webSocketMessage") /\ Malformed(trace[j].data.arg)) =>
      /\ \A i \in Segment(j) : ~IsInsert(i)
      /\ \A i \in Segment(j) : IsSend(i) => trace[i].ws = trace[j].ws
      /\ \A i \in Segment(j) : Len(StoreAt(i)) = Len(StoreAt(j))

C10_Witness ==
  \E j \in Calls :
    /\ IsCallOf(j, "webSocketMessage") /\ Malformed(trace[j].data.arg)
    /\ Cardinality(trace[j].data.live) = 2
    /\ \E i \in Segment(j) : IsSend(i) /\ trace[i].data = ErrorPayload

HistoryIds(h) == {trace[h].data.messages[n].id : n \in 1..Len(trace[h].data.messages)}

\* C11: for every accepted connection no id of its history payload is the id of
\* a message or system payload sent to it; the entry after its history send is
\* the insert of its own join row, whose id is not in the history.
C11_NoEventBothInHistoryAndLive ==
  \A j \in Calls :
    (IsCallOf(j, "fetch") /\ trace[j].ws # 0) =>
      LET c == trace[j].ws
      IN  \E h \in Segment(j) :
            /\ IsHistorySend(h) /\ trace[h].ws = c
            /\ \A i \in SendsTo(c) : IsEventSend(i) => trace[i].data.id \notin HistoryIds(h)
            /\ IsInsert(h + 1)
            /\ trace[h + 1].data.text = JoinText(attachment[c].username)
            /\ trace[h + 1].data.id \notin HistoryIds(h)
            /\ \A n \in 1..Len(StoreAt(h)) : StoreAt(h)[n].id < trace[h + 1].data.id

C11_Witness ==
  \E j \in Calls :
    /\ IsCallOf(j, "fetch") /\ trace[j].ws # 0
    /\ \E h \in Segment(j) : IsHistorySend(h) /\ Len(trace[h].data.messages) >= 1
    /\ Cardinality({i \in SendsTo(trace[j].ws) : IsEventSend(i) /\ trace[i].ok}) >= 2

\* the identity given when connection c was accepted
ConnectIdentity(c) ==
  LET f == CHOOSE j \in Calls : IsCallOf(j, "fetch") /\ trace[j].ws = c
  IN  UsernameOf(trace[f].data.arg)

Truthful(raw) ==
  LET p == JSONparse(raw)
  IN  ~p.threw /\ p.value.t = "object" /\ Truthy(p.value.text)

\* C12: whether or not the object was evicted since the connection was accepted,
\* a broadcast message carries the identity given at connect as its author and
\* a close stores the leave notice of that identity.
C12_IdentitySurvivesHibernation ==
  \A j \in Calls :
    /\ (IsCallOf(j, "webSocketMessage") /\ Truthful(trace[j].data.arg)) =>
         /\ \E i \in Segment(j) : IsSend(i) /\ trace[i].data.type = MSG_TYPE.MESSAGE
         /\ \A i \in Segment(j) :
              IsSend(i) => /\ trace[i].data.type = MSG_TYPE.MESSAGE
                           /\ trace[i].data.user = ConnectIdentity(trace[j].ws)
    /\ IsCallOf(j, "webSocketClose") =>
         /\ \E i \in Segment(j) : IsInsert(i)
         /\ \A i \in Segment(j) :
              /\ IsInsert(i) => trace[i].data.text = LeaveText(ConnectIdentity(trace[j].ws))
              /\ IsSend(i) => trace[i].data.text = LeaveText(ConnectIdentity(trace[j].ws))

C12_Witness ==
  \E f \in Calls : \E e \in Idx : \E j \in Calls :
    /\ IsCallOf(f, "fetch") /\ trace[f].ws # 0
    /\ f < e /\ e < j /\ trace[e].op = "hibernate"
    /\ IsCallOf(j, "webSocketMessage") /\ trace[j].ws = trace[f].ws
    /\ Truthful(trace[j].data.arg)
    /\ ConnectIdentity(trace[j].ws) = "User2"

\* the sends of the segment of call j that carry the system payload of row r
SystemSendsOf(j, r, c) ==
  {i \in Segment(j) : /\ IsSend(i) /\ trace[i].ws = c
                      /\ trace[i].data = [type |-> MSG_TYPE.SYSTEM, id |-> r.id, text |-> r.text]}

\* C13: accepting a connection with identity X inserts exactly one row, the
\* system row "X joined the room.", and afterwards sends its payload exactly
\* once to every live connection, the new one included, and to no other.
C13_JoinPersistedThenBroadcast ==
  \A j \in Calls :
    (IsCallOf(j, "fetch") /\ trace[j].ws # 0) =>
      LET ins  == {i \in Segment(j) : IsInsert(i)}
          live == trace[j].data.live \cup {trace[j].ws}
      IN  /\ Cardinality(ins) = 1
          /\ \A n \in ins :
               /\ trace[n].data.type = MSG_TYPE.SYSTEM
               /\ trace[n].data.user = "system"
               /\ trace[n].data.text = JoinText(UsernameOf(trace[j].data.arg))
               /\ trace[n].data.id \in StoreIds
               /\ \A c \in Conns :
                    LET got == {i \in Segment(j) : IsEventSend(i) /\ trace[i].ws = c}
                    IN  IF c \in live
                        THEN /\ Cardinality(got) = 1
                             /\ got = SystemSendsOf(j, trace[n].data, c)
                             /\ \A i \in got : i > n /\ trace[i].ok
                        ELSE got = {}

C13_Witness ==
  \E j \in Calls :
    /\ IsCallOf(j, "fetch") /\ trace[j].ws # 0
    /\ trace[j].data.live # {}
    /\ UsernameOf(trace[j].data.arg) = "User2"
    /\ Cardinality({i \in Segment(j) : IsEventSend(i)}) = 2

\* C14: closing a connection with identity X inserts exactly one row, the
\* system row "X left the room.", and afterwards sends its payload exactly
\* once to every connection that remains live; the closing socket gets at most
\* one attempt and no other connection gets anything.
C14_LeavePersistedThenBroadcast ==
  \A j \in Calls :
    IsCallOf(j, "webSocketClose") =>
      LET ins    == {i \in Segment(j) : IsInsert(i)}
          ws     == trace[j].ws
          remain == {c \in Conns : c # ws /\ \E f \in Calls :
                        /\ f < j /\ IsCallOf(f, "fetch") /\ trace[f].ws = c
                        /\ ~\E k \in Calls : k < j /\ IsCallOf(k, "webSocketClose")
                                              /\ trace[k].ws = c}
      IN  /\ Cardinality(ins) = 1
          /\ \A n \in ins :
               /\ trace[n].data.type = MSG_TYPE.SYSTEM
               /\ trace[n].data.text = LeaveText(ConnectIdentity(ws))
               /\ trace[n].data.id \in StoreIds
               /\ \A c \in Conns :
                    LET got == {i \in Segment(j) : IsSend(i) /\ trace[i].ws = c}
                    IN  /\ got = SystemSendsOf(j, trace[n].data, c)
                        /\ \A i \in got : i > n
                        /\ c \in remain => (Cardinality(got) = 1 /\ \A i \in got : trace[i].ok)
                        /\ c = ws => Cardinality(got) <= 1
                        /\ c \notin remain \cup {ws} => got = {}

C14_Witness ==
  \E j \in Calls :
    /\ IsCallOf(j, "webSocketClose")
    /\ ConnectIdentity(trace[j].ws) = "User1"
    /\ \E i \in Segment(j) : IsSend(i) /\ trace[i].ws # trace[j].ws /\ trace[i].ok

(* ---------------------- reading the request record --------------------- *)
LastRequest == http'[Len(http')]

\* the session of a /ws request verifies under the configured key
SessionVerified(req) ==
  /\ req.cookie.kind \notin {"none", "empty"}
  /\ ~Falsy(env.JWT_SECRET)
  /\ ~jwtVerify(req.cookie, env.JWT_SECRET.v, req.nowSec).threw

\* C15: a /ws request whose cookie is absent, or does not verify, or arrives
\* while no signing key is configured, is answered 401 and leaves the room
\* untouched (no connection accepted, no history sent, no join persisted or
\* broadcast); and the room's connect handler runs only within a /ws request
\* whose session token verified.
C15_RoomOnlyBehindVerifiedSession ==
  [][ /\ (http' # http /\ LastRequest.route = "/ws" /\ ~SessionVerified(LastRequest.req))
         => /\ LastRequest.resp.status = 401
            /\ UNCHANGED <<store, status, attachment, trace>>
      /\ (trace' # trace \/ status' # status \/ store' # store)
         => /\ http' # http
            /\ LastRequest.route = "/ws"
            /\ SessionVerified(LastRequest.req) ]_vars

C15_Witness ==
  \E i \in 1..Len(http) :
    /\ http[i].route = "/ws"
    /\ http[i].req.upgrade = "websocket"
    /\ http[i].req.cookie.kind = "jwt"
    /\ http[i].req.cookie.key # JwtKey
    /\ http[i].resp.status = 401
    /\ trace = <<>>
    /\ getWebSockets(status) = {}

AuthEntries == {i \in 1..Len(http) : http[i].route = "/auth"}

EffectsOf(i, op) == {k \in 1..Len(http[i].effects) : http[i].effects[k].op = op}

\* C16: one POST /auth signs at most one token and sets at most one cookie,
\* and only after the verifier returned true for the submitted code under one
\* of the configured secrets; when the verifier returned false for both, no
\* token is signed, no cookie is set and the response is 401.
C16_TokenOnlyAfterVerifiedCode ==
  \A i \in AuthEntries :
    LET signs  == EffectsOf(i, "sign")
        sets   == EffectsOf(i, "setCookie")
        checks == EffectsOf(i, "verifyToken")
        eff    == http[i].effects
        req    == http[i].req
    IN  /\ Cardinality(signs) <= 1
        /\ Cardinality(sets) <= 1
        /\ (signs \cup sets # {}) =>
             /\ ~req.body.threw
             /\ req.body.value.t = "object"
             /\ req.body.value.code.t = "string"
             /\ \/ verifyToken(env.TOTP_SECRET_1.v, req.body.value.code.s, req.now).value
                \/ verifyToken(env.TOTP_SECRET_2.v, req.body.value.code.s, req.now).value
             /\ \E k \in checks : eff[k].ok /\ \A n \in signs \cup sets : k < n
             /\ http[i].resp.status = 200
             /\ \A n \in signs, c \in sets : n < c /\ eff[n].token = eff[c].token
        /\ (checks # {} /\ \A k \in checks : ~eff[k].ok) =>
             /\ signs = {}
             /\ sets = {}
             /\ http[i].resp.status = 401

C16_Witness ==
  \E i \in AuthEntries, j \in AuthEntries :
    /\ EffectsOf(i, "sign") # {}
    /\ EffectsOf(i, "setCookie") # {}
    /\ http[i].resp.status = 200
    /\ Cardinality(EffectsOf(j, "verifyToken")) = 2
    /\ \A k \in EffectsOf(j, "verifyToken") : ~http[j].effects[k].ok
    /\ http[j].resp.status = 401

(* ---------------------- reading the verifier's call -------------------- *)
CurrentStep == totp.now \div STEP_MS

Decodable == ~base32Decode(totp.secret).threw

SecretBytes == base32Decode(totp.secret).bytes

WindowCodes == {hotp(SecretBytes, t) : t \in (CurrentStep - 1)..(CurrentStep + 1)}

\* C17: for a decodable secret and a step t, the code hotp(secret, t) is
\* accepted whenever the current step floor(now / 30000) is t-1, t or t+1.
C17_CodeAcceptedWithinWindow ==
  (totp.done /\ Decodable) =>
    LET key == SecretBytes
    IN  \A t \in GenSteps :
          (CurrentStep \in (t - 1)..(t + 1) /\ totp.token = hotp(key, t)) => totp.value

C17_Witness ==
  /\ totp.done
  /\ Decodable
  /\ totp.value
  /\ totp.token = hotp(SecretBytes, CurrentStep + 1)
  /\ totp.token # hotp(SecretBytes, CurrentStep)
  /\ totp.token # hotp(SecretBytes, CurrentStep - 1)

\* C18 as stated: the code generated at step t is rejected whenever the
\* current step is below t-1 or above t+1.
C18_CodeRejectedOutsideWindow ==
  (totp.done /\ Decodable) =>
    LET key == SecretBytes
    IN  \A t \in GenSteps :
          (CurrentStep \notin (t - 1)..(t + 1) /\ totp.token = hotp(key, t)) => ~totp.value

\* C18: the code generated at step t is rejected whenever the current step is
\* below t-1 or above t+1, unless the same six digits are also the code of one
\* of the steps current-1, current, current+1.
C18_CodeRejectedOutsideWindowUnlessRecurring ==
  (totp.done /\ Decodable) =>
    LET key == SecretBytes
    IN  \A t \in GenSteps :
          (/\ CurrentStep \notin (t - 1)..(t + 1)
           /\ totp.token = hotp(key, t)
           /\ totp.token \notin WindowCodes) => ~totp.value

C18_Witness ==
  /\ totp.done
  /\ Decodable
  /\ ~totp.value
  /\ CurrentStep - 2 \in GenSteps
  /\ totp.token = hotp(SecretBytes, CurrentStep - 2)

StripWhitespace(s) == SelectSeq(s, LAMBDA ch : ch \notin Whitespace)

IsSixDigits(s) ==
  /\ Len(s) = 6
  /\ \A i \in 1..Len(s) : s[i] \in {"0", "1", "2", "3", "4", "5", "6", "7", "8", "9"}

\* C19: verifyToken returns true only if the input without its whitespace is
\* exactly six ASCII digits and equals the code of step current-1, current or
\* current+1 under the secret; in particular it returns false for the empty
\* string, for input with a non-digit, and for five or seven digits.
C19_OnlyWindowCodesAccepted ==
  totp.done =>
    /\ totp.value => /\ Decodable
                     /\ IsSixDigits(StripWhitespace(totp.token))
                     /\ StripWhitespace(totp.token) \in WindowCodes
    /\ (totp.token = <<>> \/ ~IsSixDigits(StripWhitespace(totp.token))) => ~totp.value

C19_Witness ==
  /\ totp.done
  /\ Decodable
  /\ ~totp.value
  /\ Len(totp.token) = 7
  /\ IsSixDigits(SubSeq(totp.token, 1, 6))
  /\ IsSixDigits(SubSeq(totp.token, 2, 7))
  /\ SubSeq(totp.token, 1, 6) \in WindowCodes

\* C20: the verdict for a raw input is the verdict for the same input with
\* all whitespace removed, under the same secret and at the same time; so a
\* currently valid code typed with a space inside is accepted.
C20_WhitespaceDoesNotChangeVerdict ==
  totp.done =>
    totp.value = verifyToken(totp.secret, StripWhitespace(totp.token), totp.now).value

C20_Witness ==
  /\ totp.done
  /\ totp.value
  /\ Len(totp.token) = 7
  /\ totp.token[4] = " "

EnvGood == Env(Binding(JwtKey), Binding(Secret1), Binding(Secret2))

\* a TOTP secret is missing or cannot be decoded
Misconfigured(e) ==
  \E b \in {e.TOTP_SECRET_1, e.TOTP_SECRET_2} : Falsy(b) \/ base32Decode(b.v).threw

\* no configured secret validates the code of the request
NoSecretValidates(e, req) ==
  \A b \in {e.TOTP_SECRET_1, e.TOTP_SECRET_2} :
    Falsy(b) \/ ~verifyToken(b.v, req.body.value.code.s, req.now).value

CodeIsString(req) ==
  /\ ~req.body.threw
  /\ req.body.value.t = "object"
  /\ req.body.value.code.t = "string"

\* what a well-configured server answers to a wrong code
WrongCodeResponse(now) ==
  auth(EnvGood, [threw |-> FALSE, value |-> JSBody(JSString(<<"0", "0", "0", "0", "0", "0">>))],
       now).resp

\* C22: a request whose code no configured secret validates gets, from a
\* server with a missing or undecodable TOTP secret, the response (status and
\* body) a well-configured server gives to a wrong code.
C22_MisconfigurationLooksLikeWrongCode ==
  \A i \in AuthEntries :
    (/\ CodeIsString(http[i].req)
     /\ Misconfigured(env)
     /\ NoSecretValidates(env, http[i].req)) =>
      http[i].resp = WrongCodeResponse(http[i].req.now)

\* C23: decoding the encoding of a byte sequence returns exactly that byte
\* sequence, for 20 bytes and for every other length; the decoder does not
\* throw on what the encoder wrote.
C23_Base32RoundTrip ==
  codec.done => /\ ~codec.threw
                /\ codec.decoded = codec.bytes

C23_Witness ==
  /\ codec.done
  /\ Len(codec.bytes) = 20
  /\ Len(codec.encoded) = 32
  /\ codec.decoded = codec.bytes
  /\ \E i \in 1..20 : codec.bytes[i] >= 128

\* the work of one pass of the window loop: one HOTP value and one comparison
\* made of two digests and the platform's fixed-time comparison of them
PassWork == <<"hotp", "digest", "digest", "timingSafeEqual">>

Passes(k) == [i \in 1..(k * Len(PassWork)) |-> PassWork[((i - 1) % Len(PassWork)) + 1]]

\* the position of the first character in which a and b differ, 0 if none
FirstMismatch(a, b) ==
  IF \E i \in 1..Len(a) : a[i] # b[i]
  THEN CHOOSE i \in 1..Len(a) : a[i] # b[i] /\ \A k \in 1..(i - 1) : a[k] = b[k]
  ELSE 0

\* C24: the operations a comparison performs do not depend on where the two
\* strings first differ: every comparison is two digests and one fixed-time
\* comparison of the digests, never a character-by-character pass over the
\* strings, so every rejected six-digit input costs the same three passes.
C24_ComparisonWorkIndependentOfMismatch ==
  (totp.done /\ Decodable /\ IsSixDigits(StripWhitespace(totp.token))) =>
    /\ \E k \in 1..Len(Deltas) : totp.log = <<"base32Decode">> \o Passes(k)
    /\ ~totp.value => totp.log = <<"base32Decode">> \o Passes(Len(Deltas))

C24_Witness ==
  /\ totp.done
  /\ Decodable
  /\ ~totp.value
  /\ IsSixDigits(totp.token)
  /\ FirstMismatch(totp.token, hotp(SecretBytes, CurrentStep)) = 6
  /\ totp.log = <<"base32Decode">> \o Passes(3)

\* C25: the live events a connection is sent carry strictly increasing ids,
\* in the order of their rows in the table; and of two messages of one sender
\* the one received first is sent first, with the smaller id, to every
\* connection that is sent both.
C25_LiveEventsInIdOrder ==
  /\ \A i \in Idx, k \in Idx :
       (i < k /\ IsEventSend(i) /\ IsEventSend(k) /\ trace[i].ws = trace[k].ws) =>
         /\ trace[i].data.id < trace[k].data.id
         /\ \E a \in 1..Len(store), b \in 1..Len(store) :
              a < b /\ store[a].id = trace[i].data.id /\ store[b].id = trace[k].data.id
  /\ \A j \in Calls, k \in Calls :
       (/\ j < k
        /\ IsCallOf(j, "webSocketMessage") /\ IsCallOf(k, "webSocketMessage")
        /\ trace[j].ws = trace[k].ws) =>
         \A x \in Segment(j), y \in Segment(k) :
           (IsEventSend(x) /\ IsEventSend(y) /\ trace[x].ws = trace[y].ws) =>
             x < y /\ trace[x].data.id < trace[y].data.id

C25_Witness ==
  \E j \in Calls, k \in Calls :
    /\ j < k
    /\ IsCallOf(j, "webSocketMessage") /\ IsCallOf(k, "webSocketMessage")
    /\ trace[j].ws = trace[k].ws
    /\ \E x \in Segment(j), y \in Segment(k) :
         /\ IsEventSend(x) /\ IsEventSend(y)
         /\ trace[x].ws = trace[y].ws
         /\ trace[x].data.id < trace[y].data.id
         /\ Len(store) > HISTORY_LIMIT

(* ------------------------------------------------------------------------ *)
Reclaims == {r \in Idx : trace[r].op = "reclaim"}

\* the insert of the handler that was interrupted at r
InterruptedInsert(r) == CHOOSE i \in 1..r : IsInsert(i) /\ \A k \in (i + 1)..r : ~IsInsert(k)

\* no later insert has taken the id again
IdNotReused(r, id) == \A k \in Idx : (k > r /\ IsInsert(k)) => trace[k].data.id # id

SendsIn(j, c) == {i \in Segment(j) : IsSend(i) /\ trace[i].ws = c}

\* C27: when a send of a broadcast throws, every other listed socket is still
\* sent the same payload exactly once, also the sockets the loop reaches after
\* the failure; the socket whose send threw is sent to once and not again; and
\* the row the handler inserted before the broadcast is in the table.
C27_FailedSendDoesNotStopBroadcast ==
  \A j \in Calls : \A f \in Segment(j) :
    (IsEventSend(f) /\ ~trace[f].ok) =>
      /\ \A c \in trace[j].data.live \ {trace[f].ws} :
           /\ Cardinality(SendsIn(j, c)) = 1
           /\ \A i \in SendsIn(j, c) : trace[i].ok /\ trace[i].data = trace[f].data
      /\ SendsIn(j, trace[f].ws) = {f}
      /\ \E i \in Segment(j) : IsInsert(i) /\ i < f /\ trace[i].data.id = trace[f].data.id
      /\ \E n \in 1..Len(store) :
           /\ store[n].id = trace[f].data.id
           /\ store[n].text = trace[f].data.text
      /\ status[trace[j].ws] = "closed"

C27_Witness ==
  \E j \in Calls : \E f \in Segment(j) : \E i \in Segment(j) :
    /\ IsEventSend(f) /\ ~trace[f].ok
    /\ IsEventSend(i) /\ trace[i].ok
    /\ i > f
    /\ trace[i].ws # trace[f].ws

(* ------------------------------------------------------------------------ *)
\* the submitted frame parses to an object whose text field is not a string
TextNotAString(raw) ==
  LET p == JSONparse(raw)
  IN  /\ ~p.threw
      /\ p.value.t = "object"
      /\ p.value.text.t \notin {"undefined", "string"}

\* C28 (as claimed): a frame whose text field is present and is not a string
\* inserts no row, sends nothing to a connection other than the sender, and
\* makes the handler send the sender the error payload and nothing else.
C28_NonStringTextRejected ==
  \A j \in Calls :
    (IsCallOf(j, "webSocketMessage") /\ TextNotAString(trace[j].data.arg)) =>
      /\ \A i \in Segment(j) : ~IsInsert(i)
      /\ \A i \in Segment(j) : IsSend(i) => trace[i].ws = trace[j].ws
      /\ LET got == {i \in Segment(j) : IsSend(i) /\ trace[i].ws = trace[j].ws}
         IN  /\ Cardinality(got) = 1
             /\ \A i \in got : trace[i].data = ErrorPayload

(* ------------------------------------------------------------------------ *)
\* the step accepts connection c with the identity of its fetch call
AcceptedIn(c) ==
  /\ status[c] = "free" /\ status'[c] = "open"
  /\ ~attachment'[c].null
  /\ \E j \in (Len(trace) + 1)..Len(trace') :
       /\ trace'[j].op = "call" /\ trace'[j].data.h = "fetch" /\ trace'[j].ws = c
       /\ attachment'[c].username = UsernameOf(trace'[j].data.arg)
       /\ attachment'[c].joinedAt \in Clock

\* C29: a connection has an attachment exactly when it has been accepted; the
\* attachment is written by the step that accepts the connection; and once
\* written no step changes it: not a message, not a close, not a broadcast,
\* not the accept of another connection, not an eviction.
C29_AttachmentWrittenOnce ==
  /\ [](\A c \in Conns : (status[c] # "free") <=> ~attachment[c].null)
  /\ [][\A c \in Conns :
          IF attachment[c].null
          THEN attachment'[c].null \/ AcceptedIn(c)
          ELSE attachment'[c] = attachment[c]]_vars

C29_Witness ==
  \E f \in Calls : \E j \in Calls : \E g \in Calls :
    /\ f < j /\ j < g
    /\ IsCallOf(f, "fetch") /\ trace[f].ws = 1
    /\ IsCallOf(j, "webSocketMessage") /\ trace[j].ws = 1 /\ Truthful(trace[j].data.arg)
    /\ trace[j + 1].data.timestamp # attachment[1].joinedAt
    /\ IsCallOf(g, "fetch") /\ trace[g].ws = 2
    /\ attachment[1] = [null |-> FALSE, username |-> "User1", joinedAt |-> attachment[1].joinedAt]
    /\ attachment[2].username = "User2"

(* ------------------------------------------------------------------------ *)
\* the step leaves every stored row where and as it was and adds n rows
Appends(n) ==
  /\ Len(store') = Len(store) + n
  /\ SubSeq(store', 1, Len(store)) = store

\* the step is a call of handler h
StepCalls(h) ==
  /\ Len(trace') > Len(trace)
  /\ trace'[Len(trace) + 1].op = "call"
  /\ trace'[Len(trace) + 1].data.h = h

\* C30: every step leaves the stored rows as they are and at most appends to
\* them: an accepted connect appends exactly one row although it reads the
\* history, a frame {text: non-empty string} appends exactly one row, a close
\* appends exactly one row, and a step that is no call appends none.
C30_LogAppendOnly ==
  [][/\ Appends(0) \/ Appends(1)
     /\ (StepCalls("fetch") /\ trace'[Len(trace) + 1].ws # 0) =>
          /\ Appends(1)
          /\ trace'[Len(trace) + 2].data.type = MSG_TYPE.HISTORY
          /\ store'[Len(store')].text = JoinText(UsernameOf(trace'[Len(trace) + 1].data.arg))
     /\ (StepCalls("fetch") /\ trace'[Len(trace) + 1].ws = 0) => Appends(0)
     /\ (StepCalls("webSocketMessage")
         /\ HasNonEmptyTextString(trace'[Len(trace) + 1].data.arg)) =>
          /\ Appends(1)
          /\ store'[Len(store')].type = MSG_TYPE.MESSAGE
     /\ StepCalls("webSocketClose") =>
          /\ Appends(1)
          /\ store'[Len(store')].type = MSG_TYPE.SYSTEM
     /\ StepCalls("webSocketError") => Appends(0)
     /\ trace'[Len(trace')].op = "hibernate" => Appends(0)]_vars

C30_Witness ==
  /\ Len(store) = MaxPre + 3
  /\ SubSeq(store, 1, MaxPre) = PreStore(MaxPre, store[1].timestamp)
  /\ \E f \in Calls : \E j \in Calls : \E g \in Calls :
       /\ f < j /\ j < g
       /\ IsCallOf(f, "fetch")
       /\ Len(trace[f + 1].data.messages) = MaxPre
       /\ IsCallOf(j, "webSocketMessage")
       /\ IsCallOf(g, "webSocketClose")
  /\ store[MaxPre + 2].type = MSG_TYPE.MESSAGE

(* ------------------------------------------------------------------------ *)
\* the attachment of the socket of call j was gone when the call was made
LostBefore(j) == \E i \in 1..(j - 1) : trace[i].op = "lost" /\ trace[i].ws = trace[j].ws

\* C31: a webSocketMessage or webSocketClose on a socket whose attachment is
\* gone inserts nothing and sends no Chat Event, and nothing but the error
\* payload to its own socket; the calls made afterwards on other sockets are
\* served as ever: a connect and a frame {text: non-empty string} each insert
\* one row and send its event to every socket then live.
C31_MissingAttachmentConfined ==
  \A j \in Calls :
    ((IsCallOf(j, "webSocketMessage") \/ IsCallOf(j, "webSocketClose")) /\ LostBefore(j)) =>
      /\ \A i \in Segment(j) :
           /\ ~IsInsert(i)
           /\ ~IsEventSend(i)
           /\ IsSend(i) => (trace[i].ws = trace[j].ws /\ trace[i].data = ErrorPayload)
      /\ \A k \in Calls :
           (/\ k > j
            /\ trace[k].ws \notin {0, trace[j].ws}
            /\ ~LostBefore(k)
            /\ \/ IsCallOf(k, "fetch")
               \/ IsCallOf(k, "webSocketMessage") /\ HasNonEmptyTextString(trace[k].data.arg)) =>
             /\ Cardinality({i \in Segment(k) : IsInsert(i)}) = 1
             /\ \A i \in Segment(k) : IsInsert(i) => trace[i].data.id \in StoreIds
             /\ \A c \in trace[k].data.live \cup {trace[k].ws} :
                  Cardinality({i \in Segment(k) : IsEventSend(i) /\ trace[i].ws = c}) = 1

C31_Witness ==
  \E j \in Calls : \E k \in Calls :
    /\ IsCallOf(j, "webSocketMessage") /\ LostBefore(j)
    /\ HasNonEmptyTextString(trace[j].data.arg)
    /\ k > j /\ IsCallOf(k, "fetch") /\ trace[k].ws \notin {0, trace[j].ws}
    /\ trace[j].ws \in trace[k].data.live
    /\ \E i \in Segment(k) : IsEventSend(i) /\ trace[i].ws = trace[j].ws

(* ------------------------------------------------------------------------ *)
\* C32: the set of live sockets changes only in a step that accepts a socket,
\* which adds that socket, and in a step that handles the close of a socket,
\* which removes that socket: a message, well-formed or not, webSocketError, a
\* broadcast with a send that throws, and an eviction change no membership.
C32_MembershipChangesOnlyOnConnectAndClose ==
  [][\A c \in Conns :
       status'[c] # status[c] =>
         \/ /\ StepCalls("fetch") /\ trace'[Len(trace) + 1].ws = c
            /\ status[c] = "free" /\ status'[c] = "open"
            /\ getWebSockets(status') = getWebSockets(status) \cup {c}
         \/ /\ StepCalls("webSocketClose") /\ trace'[Len(trace) + 1].ws = c
            /\ status[c] = "open" /\ status'[c] = "closed"
            /\ getWebSockets(status') = getWebSockets(status) \ {c}]_vars

C32_Witness ==
  /\ getWebSockets(status) = {2}
  /\ status[1] = "closed"
  /\ \E j \in Calls : \E f \in Idx :
       /\ IsCallOf(j, "webSocketClose") /\ trace[j].ws = 1
       /\ trace[j].data.live = {1, 2}
       /\ f \in Segment(j) /\ IsEventSend(f) /\ ~trace[f].ok

(* ------------------------------------------------------------------------ *)
\* C33: for input that is not six digits once its whitespace is removed,
\* verifyToken returns false without throwing and has done no work at all: no
\* base32Decode, no hotp, no comparison and no console.error, whether or not
\* the secret decodes.
C33_MalformedTokenRejectedBeforeAnyWork ==
  (totp.done /\ ~IsSixDigits(StripWhitespace(totp.token))) =>
    /\ ~totp.value
    /\ ~totp.threw
    /\ totp.log = <<>>

C33_Witness ==
  /\ totp.done
  /\ totp.secret = SecretUndecodable
  /\ Len(StripWhitespace(totp.token)) = 5
  /\ IsSixDigits(StripWhitespace(totp.token) \o <<"0">>)
  /\ totp.log = <<>>
  /\ ~totp.value

(* ------------------------------------------------------------------------ *)
\* the request at i reaches the two verifier calls
ReachesVerifier(i) ==
  /\ CodeIsString(http[i].req)
  /\ ~Falsy(env.TOTP_SECRET_1) /\ ~Falsy(env.TOTP_SECRET_2)

\* the tokens signed and the cookies set while the request at i was served
IssuedAt(i) == {http[i].effects[k].token : k \in EffectsOf(i, "sign") \cup EffectsOf(i, "setCookie")}

\* C34: a POST /auth whose code the verifier accepts under both secrets signs
\* no token, sets no cookie and answers 401; a token that is issued names
\* User1 exactly when the code was accepted under secret 1 only and User2
\* exactly when under secret 2 only, and with a signing key set such a code is
\* answered 200 with that username and one token for it.
C34_BothValidIssuesNothing ==
  \A i \in AuthEntries :
    ReachesVerifier(i) =>
      LET code   == http[i].req.body.value.code.s
          v1     == verifyToken(env.TOTP_SECRET_1.v, code, http[i].req.now).value
          v2     == verifyToken(env.TOTP_SECRET_2.v, code, http[i].req.now).value
          issued == IssuedAt(i)
      IN  /\ (v1 /\ v2) => (issued = {} /\ http[i].resp.status = 401)
          /\ \A t \in issued :
               /\ v1 # v2
               /\ (t.payload.username = "User1") <=> (v1 /\ ~v2)
               /\ (t.payload.username = "User2") <=> (v2 /\ ~v1)
          /\ (v1 # v2 /\ ~Falsy(env.JWT_SECRET)) =>
               /\ Cardinality(issued) = 1
               /\ http[i].resp = Response(200, [success |-> TRUE,
                                                username |-> IF v1 THEN "User1" ELSE "User2"])

C34_Witness ==
  \E i \in AuthEntries, j \in AuthEntries :
    /\ env = EnvGood
    /\ http[i].req.body.value = JSBody(JSString(hotp(base32Decode(Secret2).bytes, 34925)))
    /\ http[i].req.now \div STEP_MS = 34925
    /\ Cardinality(EffectsOf(i, "verifyToken")) = 2
    /\ \A k \in EffectsOf(i, "verifyToken") : http[i].effects[k].ok
    /\ IssuedAt(i) = {}
    /\ http[i].resp.status = 401
    /\ http[j].resp = Response(200, [success |-> TRUE, username |-> "User2"])
    /\ \E t \in IssuedAt(j) : t.payload.username = "User2"

(* ------------------------------------------------------------------------ *)
\* C35: a GET /ws that is answered 101 accepts exactly one socket, and the
\* username attached to it is the username of the session token the request
\* presented, whatever username parameter the client put into the URL.
C35_AttachedIdentityIsTokenUsername ==
  [][(http' # http /\ LastRequest.route = "/ws" /\ LastRequest.resp.status = 101) =>
       /\ SessionVerified(LastRequest.req)
       /\ \E c \in Conns :
            /\ status[c] = "free" /\ status'[c] = "open"
            /\ attachment'[c].username = LastRequest.req.cookie.payload.username
            /\ \A d \in Conns \ {c} : status'[d] = status[d] /\ attachment'[d] = attachment[d]]_vars

C35_Witness ==
  \E i \in 1..Len(http) :
    /\ http[i].route = "/ws"
    /\ http[i].resp.status = 101
    /\ http[i].req.username = [null |-> FALSE, s |-> "User1"]
    /\ http[i].req.cookie.payload.username = "User2"
    /\ status = [c \in Conns |-> IF c = 1 THEN "open" ELSE "free"]
    /\ attachment[1].username = "User2"

(* ------------------------------------------------------------------------ *)
\* the entries the step added to the trace after its call entry
StepEffects == SubSeq(trace', Len(trace) + 2, Len(trace'))

\* C36: a frame {text: non-empty string} whose insert raises leaves the table
\* as it was, sends no Chat Event to any socket, and sends exactly one payload,
\* the error payload "Invalid message format", to the sender; the set of live
\* sockets is as before.
C36_FailedInsertBroadcastsNothing ==
  [][(/\ StepCalls("webSocketMessage")
      /\ HasNonEmptyTextString(trace'[Len(trace) + 1].data.arg)
      /\ \E i \in 1..Len(StepEffects) : StepEffects[i].op = "raise") =>
       /\ store' = store
       /\ status' = status
       /\ StepEffects = <<RaiseEntry, SendEntry(trace'[Len(trace) + 1].ws, ErrorPayload, TRUE)>>]_vars

C36_Witness ==
  \E j \in Calls : \E r \in Segment(j) :
    /\ IsCallOf(j, "webSocketMessage")
    /\ HasNonEmptyTextString(trace[j].data.arg)
    /\ trace[j].data.live = {1, 2}
    /\ trace[r].op = "raise"
    /\ Cardinality({i \in Idx : IsInsert(i)}) = 2
    /\ Len(store) = MaxPre + 2

(* ------------------------------------------------------------------------ *)
\* the submitted frame is JSON with the empty string in text
HasEmptyText(raw) ==
  LET p == JSONparse(raw)
  IN  ~p.threw /\ p.value.t = "object" /\ p.value.text = JSString("")

\* C37: a frame that parses and whose text is the empty string has no effect
\* at all: no row is inserted, the table is as before the call, and nothing is
\* sent to any socket, neither an event nor the error payload.
C37_EmptyTextDroppedSilently ==
  \A j \in Calls :
    (IsCallOf(j, "webSocketMessage") /\ HasEmptyText(trace[j].data.arg)) =>
      /\ \A i \in Segment(j) : ~IsInsert(i) /\ ~IsSend(i)
      /\ \A i \in Segment(j) : StoreAt(i) = StoreAt(j)

C37_Witness ==
  \E j \in Calls :
    /\ IsCallOf(j, "webSocketMessage") /\ HasEmptyText(trace[j].data.arg)
    /\ trace[j].data.live = {1, 2}
    /\ j = Len(trace)
    /\ Len(store) = 2

(* ------------------------------------------------------------------------ *)
\* the number a string of decimal digits writes
RECURSIVE DecimalValue(_)
DecimalValue(s) ==
  IF s = <<>> THEN 0
  ELSE (DecimalValue(SubSeq(s, 1, Len(s) - 1)) * 10) + indexOf(DecimalDigits, s[Len(s)])

\* C38: for a 20-byte digest the offset is the low nibble of the last byte, the
\* four bytes read lie inside the digest (offset + 3 <= 18), the value is the
\* big-endian number of those bytes with the top bit of the first cleared, so
\* between 0 and 2^31 - 1, and the code is six decimal digits that write that
\* value modulo 1,000,000.
C38_TruncationInsideDigestSixDigits ==
  (trunc.done /\ Len(trunc.hmac) = 20) =>
    LET h == trunc.hmac
        o == trunc.offset
    IN  /\ o = h[20] % 16
        /\ o + 3 <= 18
        /\ trunc.inside
        /\ trunc.code = ((h[o + 1] % 128) * 16777216) + (h[o + 2] * 65536)
                          + (h[o + 3] * 256) + h[o + 4]
        /\ trunc.code >= 0 /\ trunc.code <= 2147483647
        /\ IsSixDigits(trunc.text)
        /\ DecimalValue(trunc.text) = trunc.code % 1000000

C38_Witness ==
  /\ trunc.done
  /\ trunc.offset = 15
  /\ trunc.hmac[16] = 128
  /\ trunc.hmac[20] = 255
  /\ trunc.code = 1
  /\ trunc.text = <<"0", "0", "0", "0", "0", "1">>

====
